---- MODULE Spec2Model ----
(***************************************************************************)
(* Snowman backend: the Firebase-backed economy server of src/backend.py.   *)
(* The store is the `users/` tree of the realtime database; every request   *)
(* handler is split at its store reads and writes, so that a specification  *)
(* with one worker serves the requests one at a time and a specification    *)
(* with two workers interleaves them.                                       *)
(*                                                                          *)
(* Units: the wall clock is kept in milliseconds; sync_taps reads it in     *)
(* whole seconds, int(time.time()), the reward draw and the purchase        *)
(* reconciler in milliseconds, int(time.time() * 1000).  tonBalance and the *)
(* prizes are kept in hundredths (0.01 TON = 1).                            *)
(*                                                                          *)
(* src/main.py, the aiogram/aiohttp server that keeps its users in          *)
(* users.json, is modelled next to it on its own store, db: each of its     *)
(* handlers is one step.  Its times, float seconds in the code, are kept in *)
(* milliseconds too.  Invoice payloads are sequences of the pieces between  *)
(* their underscores, and initData is the sequence of its key=value parts.  *)
(***************************************************************************)
EXTENDS Integers, Sequences, FiniteSets, TLC

\* ------------------------------------------------------------------ bounds

\* Requests served in one run.
MaxReqs == 2

\* ------------------------------------------------------- program constants

\* (time_diff * 15) + 50
MAX_TAPS_PER_SECOND == 15
BUFFER == 50
\* user_db.get('last_sync', current_time - 5)
DEFAULT_ELAPSED == 5
\* earned_coins > 10
REFERRAL_MIN_THRESHOLD == 10
\* int(earned_coins * 0.10): the divisor of the 10% commission
COMMISSION_DIVISOR == 10
\* (now_ms - last_spin) < 86400000
COOLDOWN_MS == 86400000
\* item['duration'] * 24 * 60 * 60 * 1000
MS_PER_DAY == 86400000
\* "balance": 500, "level": 1 of a new user
INITIAL_BALANCE == 500
INITIAL_LEVEL == 1
\* the active booster's multiplier
BOOST_MULTIPLIER == 2

\* main.py, GameConfig: a new user's balance and the referral bonus
GameConfig_INITIAL_BALANCE == 500
REFERRAL_BONUS == 5000
\* main.py keeps times in seconds (time.time()), the model in ms
MS_PER_SECOND == 1000

\* SPIN_PRIZES = [0.01, 0.1, 0.5, 1.0, 5.0, 10.0, 0.05, 0.2], in hundredths
SPIN_PRIZES == <<1, 10, 50, 100, 500, 1000, 5, 20>>
\* SPIN_WEIGHTS = [40, 25, 10, 5, 1, 0.5, 15, 3.5], in halves
SPIN_WEIGHTS == <<80, 50, 20, 10, 2, 1, 30, 7>>

\* The catalog: type, reward (coins) and duration (days).
SHOP_ITEMS ==
    [i \in {"coin_starter", "coin_small", "coin_medium", "coin_large", "coin_mega",
            "booster_3d", "booster_15d", "booster_30d",
            "autotap_1d", "autotap_7d", "autotap_30d"} |->
        CASE i = "coin_starter" -> [type |-> "coin", reward |-> 5000, duration |-> 0]
          [] i = "coin_small"   -> [type |-> "coin", reward |-> 10000, duration |-> 0]
          [] i = "coin_medium"  -> [type |-> "coin", reward |-> 40000, duration |-> 0]
          [] i = "coin_large"   -> [type |-> "coin", reward |-> 100000, duration |-> 0]
          [] i = "coin_mega"    -> [type |-> "coin", reward |-> 220000, duration |-> 0]
          [] i = "booster_3d"   -> [type |-> "booster", reward |-> 0, duration |-> 3]
          [] i = "booster_15d"  -> [type |-> "booster", reward |-> 0, duration |-> 15]
          [] i = "booster_30d"  -> [type |-> "booster", reward |-> 0, duration |-> 30]
          [] i = "autotap_1d"   -> [type |-> "autotap", reward |-> 0, duration |-> 1]
          [] i = "autotap_7d"   -> [type |-> "autotap", reward |-> 0, duration |-> 7]
          [] OTHER              -> [type |-> "autotap", reward |-> 0, duration |-> 30]]

\* main.py, GameConfig.SHOP_ITEMS: type and amount (coins, or seconds).
GameConfig_SHOP_ITEMS ==
    [i \in DOMAIN SHOP_ITEMS |->
        CASE i = "coin_starter" -> [type |-> "coin", amount |-> 5000]
          [] i = "coin_small"   -> [type |-> "coin", amount |-> 30000]
          [] i = "coin_medium"  -> [type |-> "coin", amount |-> 70000]
          [] i = "coin_large"   -> [type |-> "coin", amount |-> 200000]
          [] i = "coin_mega"    -> [type |-> "coin", amount |-> 500000]
          [] i = "booster_3d"   -> [type |-> "booster", amount |-> 3 * 24 * 3600]
          [] i = "booster_15d"  -> [type |-> "booster", amount |-> 15 * 24 * 3600]
          [] i = "booster_30d"  -> [type |-> "booster", amount |-> 30 * 24 * 3600]
          [] i = "autotap_1d"   -> [type |-> "autotap", amount |-> 1 * 24 * 3600]
          [] i = "autotap_7d"   -> [type |-> "autotap", amount |-> 7 * 24 * 3600]
          [] OTHER              -> [type |-> "autotap", amount |-> 30 * 24 * 3600]]

\* ------------------------------------------------------------ input sets

\* Telegram user ids; 3 has no record in the initial store.
UserIds == {1, 2, 3}
\* Python's None for an id.
None == 0

\* An id that names no record in either store, as a start parameter can.
NoSuchUser == 4

\* Request workers: one serves the requests one at a time, two interleave them.
OneWorker == {1}
TwoWorkers == {1, 2}
\* The clock at start, later than one cooldown after the epoch (as any real
\* clock is, so that a missing lastSpinTime, read as 0, means eligible).
StartClock == 25 * 60 * 60 * 1000
\* ------------------------------------------------------------- verifier

\* initData, unquoted and split at '&', is a sequence of parts "key=value".
\* A part is kept as its key and its value: the value of auth_date is a
\* number; the value of user is a user id, for the JSON object of that user,
\* or BadJson, for a text json.loads rejects; the value of hash is a digest,
\* kept in mac.

\* hmac.new(key, msg, sha256): a digest names its key and message, so that
\* two digests are equal iff both are.
Hmac(key, msg) == [k |-> key, m |-> msg]

NoMac == Hmac(Hmac("", ""), <<>>)

Part(key, val) == [key |-> key, val |-> val, mac |-> NoMac]

HashPart(digest) == [key |-> "hash", val |-> 0, mac |-> digest]

BadJson == -1

\* os.getenv("BOT_TOKEN"); "" when the variable is not set.
BOT_TOKEN == "bot-token"
NoToken == ""

\* The order of sorted() on the parts, which are strings: by key, and by
\* value under one key.
PartLess(a, b) ==
    LET rank == [k \in {"auth_date", "query_id", "user"} |->
                    CASE k = "auth_date" -> 1 [] k = "query_id" -> 2 [] OTHER -> 3]
    IN  \/ rank[a.key] < rank[b.key]
        \/ (a.key = b.key /\ a.val < b.val)

\* The parts that do not start with 'hash=', in their order.
NonHash(data_parts) == SelectSeq(data_parts, LAMBDA part : part.key # "hash")

\* Mutant: the parts joined in the order they came in.
DataCheckString_Unsorted(data_parts) == NonHash(data_parts)

\* data_check_string: the sorted non-hash parts, joined with newlines.
DataCheckString(data_parts) == SortSeq(NonHash(data_parts), PartLess)

\* hmac.new(b"WebAppData", BOT_TOKEN.encode(), sha256).digest()
SecretKey(token) == Hmac("WebAppData", token)

\* The first part with the given key: its index, 0 when there is none.
FirstPart(data_parts, key) ==
    IF \E i \in DOMAIN data_parts : data_parts[i].key = key
    THEN CHOOSE i \in DOMAIN data_parts :
            /\ data_parts[i].key = key
            /\ \A j \in 1..(i - 1) : data_parts[j].key # key
    ELSE 0

\* The try block of verify_telegram_data under the token: the user it
\* returns (None: it returns None), or raised when an exception leaves it.
VerifyBody(token, data_parts) ==
    LET hash_part == FirstPart(data_parts, "hash")
        user_part == FirstPart(data_parts, "user")
        calculated_hash == Hmac(SecretKey(token), DataCheckString(data_parts))
    IN  IF hash_part = 0
        THEN [user |-> None, raised |-> FALSE]
        ELSE IF calculated_hash # data_parts[hash_part].mac
        THEN [user |-> None, raised |-> FALSE]
        ELSE IF user_part = 0
        THEN \* None.split: AttributeError
             [user |-> None, raised |-> TRUE]
        ELSE IF data_parts[user_part].val = BadJson
        THEN \* json.loads: JSONDecodeError
             [user |-> None, raised |-> TRUE]
        ELSE [user |-> data_parts[user_part].val, raised |-> FALSE]

\* Mutant: no except clause around the body.
VerifyWith_NoExcept(token, data_parts) ==
    IF token = NoToken
    THEN [user |-> None, raised |-> FALSE]
    ELSE VerifyBody(token, data_parts)

\* verify_telegram_data under the token: None without a token, and None
\* for any exception of the body.
VerifyWith(token, data_parts) ==
    IF token = NoToken
    THEN [user |-> None, raised |-> FALSE]
    ELSE IF VerifyBody(token, data_parts).raised
    THEN [user |-> None, raised |-> FALSE]
    ELSE VerifyBody(token, data_parts)

\* Mutant: the embedded user returned whatever the hash.
VerifyTelegramData_NoHashCheck(init_data) ==
    IF FirstPart(init_data, "user") = 0
    THEN None
    ELSE init_data[FirstPart(init_data, "user")].val

\* verify_telegram_data: the embedded user on a matching hash, else None.
VerifyTelegramData(init_data) == VerifyWith(BOT_TOKEN, init_data).user

\* initData as Telegram signs it for a user: auth_date, user and the hash of
\* both under the bot's key.
SignedFor(token, user) ==
    LET fields == <<Part("auth_date", 1), Part("user", user)>>
    IN  Append(fields, HashPart(Hmac(SecretKey(token), fields)))

\* No call yet.
NoCall == [token |-> NoToken, init_data |-> <<>>, result |-> [user |-> None, raised |-> FALSE],
           called |-> FALSE]

\* The non-hash parts of the arguments verify_telegram_data is called with
\* on its own: in sorted order and not, with and without a user, with a user
\* that does not parse, and none at all.
VerifyFields ==
    {<<Part("auth_date", 1), Part("user", 1)>>,
     <<Part("user", 1), Part("auth_date", 1)>>,
     <<Part("auth_date", 1), Part("user", 2)>>,
     <<Part("user", 2), Part("auth_date", 1)>>,
     <<Part("auth_date", 1), Part("user", 3)>>,
     <<Part("query_id", 7), Part("auth_date", 1), Part("user", 1)>>,
     <<Part("auth_date", 1), Part("user", BadJson)>>,
     <<Part("auth_date", 1)>>,
     <<Part("user", 3)>>,
     <<>>}

\* The digests sent along with the fields: of their sorted form under the
\* bot's key, of their unsorted form, under another key, and the bot's own
\* digest of other fields.
VerifyDigests(fields) ==
    {Hmac(SecretKey(BOT_TOKEN), SortSeq(fields, PartLess)),
     Hmac(SecretKey(BOT_TOKEN), fields),
     Hmac(SecretKey("guess"), SortSeq(fields, PartLess)),
     Hmac(SecretKey(BOT_TOKEN), <<Part("auth_date", 1), Part("user", 2)>>)}

\* The arguments: the fields alone, or with a hash part after or before.
VerifyDatas ==
    VerifyFields
    \cup {Append(fields, HashPart(h)) : <<fields, h>> \in
            UNION {{<<f, d>> : d \in VerifyDigests(f)} : f \in VerifyFields}}
    \cup {<<HashPart(h)>> \o fields : <<fields, h>> \in
            UNION {{<<f, d>> : d \in VerifyDigests(f)} : f \in VerifyFields}}

\* Authorization headers: initData signed for a user; for user 1, signed by
\* somebody who does not have the bot's token; for user 2, with no hash.
InitDatas ==
    {SignedFor(BOT_TOKEN, u) : u \in UserIds}
    \cup {SignedFor("guess", 1), <<Part("auth_date", 1), Part("user", 2)>>}

\* ---------------------------------------------------------------- strings

\* An invoice payload is kept as the sequence of its pieces between
\* underscores: "booster_3d_1" is <<"booster", "3d", "1">>.

\* str(user_id)
Str(user_id) == CASE user_id = 1 -> "1" [] user_id = 2 -> "2" [] OTHER -> "3"

\* The pieces of a catalog id: each is its type, an underscore and a suffix.
ItemPieces(item_id) ==
    <<SHOP_ITEMS[item_id].type,
      CASE item_id = "coin_starter" -> "starter"
        [] item_id = "coin_small" -> "small"
        [] item_id = "coin_medium" -> "medium"
        [] item_id = "coin_large" -> "large"
        [] item_id = "coin_mega" -> "mega"
        [] item_id = "booster_3d" -> "3d"
        [] item_id = "booster_15d" -> "15d"
        [] item_id \in {"booster_30d", "autotap_30d"} -> "30d"
        [] item_id = "autotap_1d" -> "1d"
        [] OTHER -> "7d">>

\* s.split('_', 1): the list of one or two strings.
SplitOnce(s) == IF Len(s) <= 1 THEN <<s>> ELSE <<<<Head(s)>>, Tail(s)>>

\* A string that is no catalog id.
NotAnItem == "no_such_item"

\* Mutant: a lookup that answers an unknown key with the first coin pack.
CatalogKey_Lenient(s) ==
    IF \E i \in DOMAIN SHOP_ITEMS : ItemPieces(i) = s
    THEN CHOOSE i \in DOMAIN SHOP_ITEMS : ItemPieces(i) = s
    ELSE "coin_starter"

\* The string s as a key of the catalog: SHOP_ITEMS.get(s) finds an item iff
\* s is, piece by piece, one of the catalog ids.
CatalogKey(s) ==
    IF \E i \in DOMAIN SHOP_ITEMS : ItemPieces(i) = s
    THEN CHOOSE i \in DOMAIN SHOP_ITEMS : ItemPieces(i) = s
    ELSE NotAnItem

\* The string s as a user id: the id it is the decimal form of, if any.
UserOfStr(s) ==
    IF \E u \in UserIds : <<Str(u)>> = s
    THEN CHOOSE u \in UserIds : <<Str(u)>> = s
    ELSE None

\* backend.py create_invoice: "payload": f"{item_id}_{user_id}"
CreateInvoicePayload(item_id, user_id) == ItemPieces(item_id) \o <<Str(user_id)>>

\* main.py api_create_invoice: payload=f"{user_id}_{item_id}"
ApiCreateInvoicePayload(user_id, item_id) == <<Str(user_id)>> \o ItemPieces(item_id)

\* The inputs the requests of a specification are drawn from:
\*   delays  time between two arrivals (ms): none, or one day
\*   datas   Authorization headers, two of which do not verify
\*   taps    claimed tap counts: around the commission threshold (10),
\*           around the cap at 1 s elapsed (65), and a negative count
\*   draws   outcomes of the weighted draw (indices of SPIN_PRIZES)
\*   buyers, items   arguments of update_user_perks; the last item is not
\*           in the catalog
\*   payloads  invoice payloads /webhook receives: two that create_invoice
\*           built, and one with no underscore
Inputs ==
    [delays |-> {0, 86400000},
     datas  |-> InitDatas,
     taps   |-> {-5, 10, 11, 65, 66},
     draws  |-> {1, 5, 8},
     buyers |-> {1, 3},
     items  |-> {"coin_starter", "booster_3d", "no_such_item"},
     payloads |-> {CreateInvoicePayload("booster_15d", 1),
                   CreateInvoicePayload("coin_starter", 3),
                   <<"gift">>}]

VARIABLES
    users,      \* users/{id}: the stored fields of each id (none: no node)
    clock,      \* wall clock, ms
    pc,         \* each worker's position in its handler
    req,        \* each worker's current (or last) request
    loc,        \* each worker's handler locals
    resp,       \* each worker's last response
    pre,        \* the store as it was when the worker's request arrived
    users0,     \* the store at start
    nreq,       \* requests served
    db,         \* main.py: the content of users.json, the record of each id
    mlog,       \* main.py: the requests served so far, each with the
                \* content of users.json before it and its outcome
    call        \* the last call of verify_telegram_data on its own: the
                \* token, the argument and the result

vars == <<users, clock, pc, req, loc, resp, pre, users0, nreq, db, mlog, call>>

\* ---------------------------------------------------------------- records

Workers == TwoWorkers

\* A node with no fields: db.reference(...).get() returns None.
NoRecord == [f \in {} |-> 0]

\* Mutant: a missing node taken for a record.
Exists_Always(r) == TRUE

\* `if not user_db` fails: the node has fields.
Exists(r) == DOMAIN r # {}

\* dict.get(f, d)
Get(r, f, d) == IF f \in DOMAIN r THEN r[f] ELSE d

\* ref.update(upd): sets the fields of upd, keeps the others, creates the node.
Merge(r, upd) ==
    [f \in DOMAIN r \cup DOMAIN upd |-> IF f \in DOMAIN upd THEN upd[f] ELSE r[f]]

NoReq == [op |-> "none", uid |-> None, taps |-> 0, item |-> "", at |-> 0]

NoLoc == [user_db |-> NoRecord, ts |-> 0, upd |-> NoRecord, ref |-> None,
          commission |-> 0, index |-> 0, comm_failed |-> FALSE, data |-> <<>>]

\* A response: HTTP code, outcome, and the numbers its body carries; wait is
\* the remaining cooldown in ms, None in a body that has no such field; user
\* is the record /auth returns.
NoResp == [code |-> 0, status |-> "none", balance |-> 0, index |-> 0,
           prize |-> 0, new_ton |-> 0, applied |-> FALSE, wait |-> None,
           user |-> NoRecord]

\* ----------------------------------------------------------------- start

\* A record as auth_user creates it (username left out), here with a level
\* and, where given, the referredBy the game client stored.
StoredUser(balance, level, last_sync, referredBy) ==
    [f \in {"balance", "tonBalance", "level", "last_sync", "referralCount", "referredBy"} |->
        CASE f = "balance" -> balance
          [] f = "level" -> level
          [] f = "last_sync" -> last_sync
          [] f = "referredBy" -> referredBy
          [] OTHER -> 0]

\* main.py _get_default_schema (is_blocked left out, as are the username and
\* first_name register_user adds), with time.time() in ms.
DefaultSchema(now) ==
    [balance |-> GameConfig_INITIAL_BALANCE, tonBalance |-> 0, level |-> 1,
     currentLevelScore |-> 0, tapCount |-> 0, referrals |-> <<>>,
     referredBy |-> None, joined_date |-> now, last_active |-> now]

\* users.json at start, as two /start commands and a purchase leave it: 1
\* joined, then 2 joined through 1's referral link and bought an autotap that
\* has two days left; 3 has no record.
InitDb ==
    [u \in UserIds |->
        CASE u = 1 -> [DefaultSchema(StartClock) EXCEPT
                          !.balance = GameConfig_INITIAL_BALANCE + REFERRAL_BONUS,
                          !.referrals = <<2>>]
          [] u = 2 -> Merge([DefaultSchema(StartClock) EXCEPT
                                !.balance = GameConfig_INITIAL_BALANCE + REFERRAL_BONUS,
                                !.referredBy = 1],
                             "autotap_end" :> (StartClock + 2 * MS_PER_DAY))
          [] OTHER -> NoRecord]

\* Users 1 and 2 have records, 3 has none.  1, at level 1, was referred by 2
\* and last synced a second ago; 2, at level 2, was referred by the id 3,
\* which has no record, synced just now and has an autotap with two days left.
Init ==
    /\ users = [u \in UserIds |->
                  CASE u = 1 -> StoredUser(100, 1, (StartClock \div 1000) - 1, 2)
                    [] u = 2 -> Merge(StoredUser(INITIAL_BALANCE, 2, StartClock \div 1000, 3),
                                      "autotapEndTime" :> (StartClock + 2 * MS_PER_DAY))
                    [] OTHER -> NoRecord]
    /\ users0 = users
    /\ clock = StartClock
    /\ pc = [p \in Workers |-> "idle"]
    /\ req = [p \in Workers |-> NoReq]
    /\ loc = [p \in Workers |-> NoLoc]
    /\ resp = [p \in Workers |-> NoResp]
    /\ pre = [p \in Workers |-> users]
    /\ nreq = 0
    /\ db = InitDb
    /\ mlog = <<>>
    /\ call = NoCall

\* A request arrives at idle worker p, some time after the previous arrival;
\* the handler reads the clock, time.time(), as it starts.
Arrive(p, now, op, user_id, taps_count, item_id) ==
    /\ pc[p] = "idle"
    /\ nreq < MaxReqs
    /\ nreq' = nreq + 1
    /\ clock' = now
    /\ req' = [req EXCEPT ![p] = [op |-> op, uid |-> user_id, taps |-> taps_count,
                                  item |-> item_id, at |-> now]]
    /\ pre' = [pre EXCEPT ![p] = users]
    /\ UNCHANGED <<users0, db, mlog>>

\* The handler passes the Authorization header to verify_telegram_data.
Verifies(init_data) ==
    call' = [token |-> BOT_TOKEN, init_data |-> init_data,
             result |-> VerifyWith(BOT_TOKEN, init_data), called |-> TRUE]

\* The handler returns response r.
Respond(p, r) ==
    /\ resp' = [resp EXCEPT ![p] = r]
    /\ pc' = [pc EXCEPT ![p] = "idle"]

\* verify_telegram_data(init_data) called on its own, by a server whose
\* BOT_TOKEN is set or not.
VerifyCall ==
    \E token \in {BOT_TOKEN, NoToken}, init_data \in VerifyDatas :
        /\ call' = [token |-> token, init_data |-> init_data,
                    result |-> VerifyWith(token, init_data), called |-> TRUE]
        /\ UNCHANGED <<users, clock, pc, req, loc, resp, pre, users0, nreq, db, mlog>>

\* ------------------------------------------------------------- sync_taps

\* multiplier = 2 if boosterEndTime > current_time * 1000 else 1
Multiplier(user_db, current_time) ==
    IF Get(user_db, "boosterEndTime", 0) > current_time * 1000
    THEN BOOST_MULTIPLIER ELSE 1

\* Mutant: the elapsed time counted one second too long.
MaxPossible_ExtraSecond(user_db, current_time) ==
    LET last_sync == Get(user_db, "last_sync", current_time - DEFAULT_ELAPSED)
        time_diff == current_time - last_sync + 1
    IN  (time_diff * MAX_TAPS_PER_SECOND) + BUFFER

\* max_possible = (time_diff * 15) + 50
MaxPossible(user_db, current_time) ==
    LET last_sync == Get(user_db, "last_sync", current_time - DEFAULT_ELAPSED)
        time_diff == current_time - last_sync
    IN  (time_diff * MAX_TAPS_PER_SECOND) + BUFFER

\* Mutant: the level left out of the product.
EarnedCoins_NoLevel(user_db, taps_count, current_time) ==
    taps_count * Multiplier(user_db, current_time)

\* earned_coins = taps_count * level * multiplier
EarnedCoins(user_db, taps_count, current_time) ==
    taps_count * Get(user_db, "level", 1) * Multiplier(user_db, current_time)

\* int(earned_coins * 0.10), for the earned_coins > 10 it is computed for
Commission(earned_coins) == earned_coins \div COMMISSION_DIVISOR

\* Mutant: the threshold compared with >=.
CommissionDue_Inclusive(referrer_id, earned_coins) ==
    /\ referrer_id # None
    /\ earned_coins >= REFERRAL_MIN_THRESHOLD
    /\ Commission(earned_coins) > 0

\* Whether the commission transaction runs: referrer_id and earned_coins > 10,
\* then commission > 0.
CommissionDue(referrer_id, earned_coins) ==
    /\ referrer_id # None
    /\ earned_coins > REFERRAL_MIN_THRESHOLD
    /\ Commission(earned_coins) > 0

\* The fields sync_taps writes.
SyncUpdates(user_db, taps_count, current_time) ==
    ("balance" :> (Get(user_db, "balance", 0) + EarnedCoins(user_db, taps_count, current_time)))
    @@ ("last_sync" :> current_time)
    @@ ("tapCount" :> (Get(user_db, "tapCount", 0) + taps_count))

\* /sync_taps up to the anti-cheat decision: verify, read the record, check.
SyncBegin(p, inp) ==
    \E delay \in inp.delays, init_data \in inp.datas, taps_count \in inp.taps :
        LET user_id == VerifyTelegramData(init_data)
            user_db == IF user_id = None THEN NoRecord ELSE users[user_id]
            current_time == (clock + delay) \div 1000
            earned == EarnedCoins(user_db, taps_count, current_time)
            referrer_id == Get(user_db, "referredBy", None)
        IN  /\ Arrive(p, clock + delay, "sync_taps", user_id, taps_count, "")
            /\ Verifies(init_data)
            /\ UNCHANGED users
            /\ IF user_id = None
               THEN /\ Respond(p, [NoResp EXCEPT !.code = 403, !.status = "error"])
                    /\ loc' = [loc EXCEPT ![p] = NoLoc]
               ELSE IF ~Exists(user_db)
               THEN /\ Respond(p, [NoResp EXCEPT !.code = 404, !.status = "error"])
                    /\ loc' = [loc EXCEPT ![p] = NoLoc]
               ELSE IF taps_count > MaxPossible(user_db, current_time)
               THEN /\ Respond(p, [NoResp EXCEPT !.code = 200, !.status = "rejected",
                                                 !.balance = Get(user_db, "balance", 0)])
                    /\ loc' = [loc EXCEPT ![p] = NoLoc]
               ELSE /\ loc' = [loc EXCEPT ![p] =
                            [NoLoc EXCEPT !.user_db = user_db, !.ts = current_time,
                                          !.upd = SyncUpdates(user_db, taps_count, current_time),
                                          !.ref = referrer_id,
                                          !.commission = Commission(earned)]]
                    /\ pc' = [pc EXCEPT ![p] =
                            IF CommissionDue(referrer_id, earned)
                            THEN "sync_commission" ELSE "sync_update"]
                    /\ UNCHANGED resp

\* r_ref.transaction(lambda current: (current or 0) + commission) on
\* users/{referrer_id}/balance: one atomic step of the store, which creates
\* the node when there is none.
CreditReferrer(store, referrer_id, commission) ==
    [store EXCEPT ![referrer_id] =
        Merge(@, "balance" :> (Get(@, "balance", 0) + commission))]

\* Mutant: the credit added to the balance the store had when the request
\* arrived, a read and a write in place of the transaction.
SyncCommission_Stale(p) ==
    /\ pc[p] = "sync_commission"
    /\ users' = [users EXCEPT ![loc[p].ref] =
                    Merge(@, "balance" :> (Get(pre[p][loc[p].ref], "balance", 0)
                                           + loc[p].commission))]
    /\ pc' = [pc EXCEPT ![p] = "sync_update"]
    /\ UNCHANGED <<clock, req, loc, resp, pre, users0, nreq, db, mlog, call>>

SyncCommission(p) ==
    /\ pc[p] = "sync_commission"
    /\ users' = CreditReferrer(users, loc[p].ref, loc[p].commission)
    /\ pc' = [pc EXCEPT ![p] = "sync_update"]
    /\ UNCHANGED <<clock, req, loc, resp, pre, users0, nreq, db, mlog, call>>

\* Mutant: the transaction's error is not caught and the request fails.
SyncCommissionFails_Propagates(p) ==
    /\ pc[p] = "sync_commission"
    /\ loc' = [loc EXCEPT ![p].comm_failed = TRUE]
    /\ Respond(p, [NoResp EXCEPT !.code = 500, !.status = "error"])
    /\ UNCHANGED <<users, clock, req, pre, users0, nreq, db, mlog, call>>

\* The transaction raises (a store error): `except: pass` swallows it and the
\* handler goes on to its own update.
SyncCommissionFails(p) ==
    /\ pc[p] = "sync_commission"
    /\ loc' = [loc EXCEPT ![p].comm_failed = TRUE]
    /\ pc' = [pc EXCEPT ![p] = "sync_update"]
    /\ UNCHANGED <<users, clock, req, resp, pre, users0, nreq, db, mlog, call>>

\* Mutant: the three fields written with ref.set, which replaces the node.
SyncUpdate_Set(p) ==
    /\ pc[p] = "sync_update"
    /\ users' = [users EXCEPT ![req[p].uid] = loc[p].upd]
    /\ Respond(p, [NoResp EXCEPT !.code = 200, !.status = "ok",
                                 !.balance = loc[p].upd["balance"]])
    /\ UNCHANGED <<clock, req, loc, pre, users0, nreq, db, mlog, call>>

\* ref.update({balance, last_sync, tapCount}) and the ok response.
SyncUpdate(p) ==
    /\ pc[p] = "sync_update"
    /\ users' = [users EXCEPT ![req[p].uid] = Merge(@, loc[p].upd)]
    /\ Respond(p, [NoResp EXCEPT !.code = 200, !.status = "ok",
                                 !.balance = loc[p].upd["balance"]])
    /\ UNCHANGED <<clock, req, loc, pre, users0, nreq, db, mlog, call>>

\* ref.update raises (the store cannot be reached): nothing in sync_taps
\* catches it, the record is not written and the request ends with a 500.
SyncUpdateFails(p) ==
    /\ pc[p] = "sync_update"
    /\ Respond(p, [NoResp EXCEPT !.code = 500, !.status = "error"])
    /\ UNCHANGED <<users, clock, req, loc, pre, users0, nreq, db, mlog, call>>

\* ------------------------------------------------------------ spin_wheel

\* Mutant: the last draw read under another key than the one written.
CooldownActive_WrongKey(user_db, now_ms) ==
    (now_ms - Get(user_db, "lastSpin", 0)) < COOLDOWN_MS

\* Mutant: the cooldown compared with <=.
CooldownActive_Inclusive(user_db, now_ms) ==
    (now_ms - Get(user_db, "lastSpinTime", 0)) <= COOLDOWN_MS

\* (now_ms - last_spin) < 86400000
CooldownActive(user_db, now_ms) ==
    (now_ms - Get(user_db, "lastSpinTime", 0)) < COOLDOWN_MS

\* random.choices(range(8), weights=SPIN_WEIGHTS): any index whose weight is
\* positive (indices from 1 here, from 0 in the code).
SpinIndices == {i \in DOMAIN SPIN_PRIZES : SPIN_WEIGHTS[i] > 0}

\* The fields spin_wheel_secure writes.
SpinUpdates(user_db, chosen_index, now_ms) ==
    ("tonBalance" :> (Get(user_db, "tonBalance", 0) + SPIN_PRIZES[chosen_index]))
    @@ ("lastSpinTime" :> now_ms)

\* /spin_wheel up to the draw: verify, read the record (or {}), check the
\* cooldown, draw.
SpinBegin(p, inp) ==
    \E delay \in inp.delays, init_data \in inp.datas :
        LET user_id == VerifyTelegramData(init_data)
            user_db == IF user_id = None THEN NoRecord ELSE users[user_id]
            now_ms == clock + delay
        IN  /\ Arrive(p, now_ms, "spin_wheel", user_id, 0, "")
            /\ Verifies(init_data)
            /\ UNCHANGED users
            /\ IF user_id = None
               THEN /\ Respond(p, [NoResp EXCEPT !.code = 403, !.status = "error"])
                    /\ loc' = [loc EXCEPT ![p] = NoLoc]
               ELSE IF CooldownActive(user_db, now_ms)
               THEN \* {"ok": False, "error": "Cooldown active"}, 400
                    /\ Respond(p, [NoResp EXCEPT !.code = 400, !.status = "cooldown"])
                    /\ loc' = [loc EXCEPT ![p] = NoLoc]
               ELSE \E chosen_index \in SpinIndices \cap inp.draws :
                    /\ loc' = [loc EXCEPT ![p] =
                            [NoLoc EXCEPT !.user_db = user_db, !.ts = now_ms,
                                          !.upd = SpinUpdates(user_db, chosen_index, now_ms),
                                          !.index = chosen_index]]
                    /\ pc' = [pc EXCEPT ![p] = "spin_update"]
                    /\ UNCHANGED resp

\* ref.update({tonBalance, lastSpinTime}) and the result.
SpinUpdate(p) ==
    /\ pc[p] = "spin_update"
    /\ users' = [users EXCEPT ![req[p].uid] = Merge(@, loc[p].upd)]
    /\ Respond(p, [NoResp EXCEPT !.code = 200, !.status = "ok",
                                 !.index = loc[p].index,
                                 !.prize = SPIN_PRIZES[loc[p].index],
                                 !.new_ton = loc[p].upd["tonBalance"]])
    /\ UNCHANGED <<clock, req, loc, pre, users0, nreq, db, mlog, call>>

\* ------------------------------------------------------ update_user_perks

\* Mutant: the new period always counted from now.
PerkUpdates_FromNow(data, item, now_ms) ==
    IF item.type = "coin"
    THEN "balance" :> (Get(data, "balance", 0) + item.reward)
    ELSE LET field == IF item.type = "booster" THEN "boosterEndTime" ELSE "autotapEndTime"
             duration_ms == item.duration * MS_PER_DAY
         IN  field :> (now_ms + duration_ms)

\* The fields update_user_perks writes for a catalog item.
PerkUpdates(data, item, now_ms) ==
    IF item.type = "coin"
    THEN "balance" :> (Get(data, "balance", 0) + item.reward)
    ELSE LET field == IF item.type = "booster" THEN "boosterEndTime" ELSE "autotapEndTime"
             current_end == Get(data, field, 0)
             start_point == IF now_ms > current_end THEN now_ms ELSE current_end
             duration_ms == item.duration * MS_PER_DAY
         IN  field :> (start_point + duration_ms)

\* update_user_perks(user_id, item_id), the purchase reconciler, called with
\* the ids of a confirmed purchase, up to its write: look the item up, read
\* the record (or {}), compute the updates.
PerksBegin(p, inp) ==
    \E delay \in inp.delays, user_id \in inp.buyers, item_id \in inp.items :
        LET now_ms == clock + delay
            data == users[user_id]
        IN
        /\ Arrive(p, now_ms, "update_user_perks", user_id, 0, item_id)
        /\ UNCHANGED <<users, call>>
        /\ IF item_id \notin DOMAIN SHOP_ITEMS
           THEN /\ Respond(p, [NoResp EXCEPT !.code = 200, !.applied = FALSE])
                /\ loc' = [loc EXCEPT ![p] = NoLoc]
           ELSE /\ loc' = [loc EXCEPT ![p] =
                        [NoLoc EXCEPT !.user_db = data, !.ts = now_ms,
                                      !.upd = PerkUpdates(data, SHOP_ITEMS[item_id], now_ms)]]
                /\ pc' = [pc EXCEPT ![p] = "perks_update"]
                /\ UNCHANGED resp

\* Mutant: the updates written with ref.set, which replaces the node.
PerksUpdate_Set(p) ==
    /\ pc[p] = "perks_update"
    /\ users' = [users EXCEPT ![req[p].uid] = loc[p].upd]
    /\ Respond(p, [NoResp EXCEPT !.code = 200, !.applied = TRUE])
    /\ UNCHANGED <<clock, req, loc, pre, users0, nreq, db, mlog, call>>

\* ref.update(updates); return True
PerksUpdate(p) ==
    /\ pc[p] = "perks_update"
    /\ users' = [users EXCEPT ![req[p].uid] = Merge(@, loc[p].upd)]
    /\ Respond(p, [NoResp EXCEPT !.code = 200, !.applied = TRUE])
    /\ UNCHANGED <<clock, req, loc, pre, users0, nreq, db, mlog, call>>

\* /webhook with a message that has a successful_payment (a pre_checkout_query
\* and a /start message touch no record): split the payload, call
\* update_user_perks(uid, item_id); every exception is swallowed; "OK", 200.
Webhook(p, inp) ==
    \E delay \in inp.delays, payload \in inp.payloads :
        LET now_ms == clock + delay
            parts == SplitOnce(payload)
            item_id == IF Len(parts) = 2 THEN CatalogKey(parts[1]) ELSE NotAnItem
            user_id == IF Len(parts) = 2 THEN UserOfStr(parts[2]) ELSE None
            data == IF user_id = None THEN NoRecord ELSE users[user_id]
        IN
        /\ Arrive(p, now_ms, "webhook", user_id, 0, item_id)
        /\ UNCHANGED <<users, call>>
        /\ IF Len(parts) # 2 \/ item_id \notin DOMAIN SHOP_ITEMS
           THEN /\ Respond(p, [NoResp EXCEPT !.code = 200, !.applied = FALSE])
                /\ loc' = [loc EXCEPT ![p] = [NoLoc EXCEPT !.data = payload]]
           ELSE /\ loc' = [loc EXCEPT ![p] =
                        [NoLoc EXCEPT !.user_db = data, !.ts = now_ms, !.data = payload,
                                      !.upd = PerkUpdates(data, SHOP_ITEMS[item_id], now_ms)]]
                /\ pc' = [pc EXCEPT ![p] = "perks_update"]
                /\ UNCHANGED resp

\* ------------------------------------------------------------------ /auth

\* Mutant: the new record without its level.
NewUser_NoLevel(now_s) ==
    [f \in {"balance", "tonBalance", "last_sync", "referralCount"} |->
        CASE f = "balance" -> INITIAL_BALANCE
          [] f = "last_sync" -> now_s
          [] OTHER -> 0]

\* The record auth_user creates (username left out).
NewUser(now_s) ==
    [f \in {"balance", "tonBalance", "level", "last_sync", "referralCount"} |->
        CASE f = "balance" -> INITIAL_BALANCE
          [] f = "level" -> INITIAL_LEVEL
          [] f = "last_sync" -> now_s
          [] OTHER -> 0]

\* /auth up to its write: verify, read the record; an existing one is returned.
AuthBegin(p, inp) ==
    \E delay \in inp.delays, init_data \in inp.datas :
        LET user_id == VerifyTelegramData(init_data)
            user_db == IF user_id = None THEN NoRecord ELSE users[user_id]
            now_s == (clock + delay) \div 1000
        IN  /\ Arrive(p, clock + delay, "auth", user_id, 0, "")
            /\ Verifies(init_data)
            /\ UNCHANGED users
            /\ IF user_id = None
               THEN /\ Respond(p, [NoResp EXCEPT !.code = 403, !.status = "error"])
                    /\ loc' = [loc EXCEPT ![p] = NoLoc]
               ELSE IF Exists(user_db)
               THEN /\ Respond(p, [NoResp EXCEPT !.code = 200, !.status = "ok",
                                                 !.balance = Get(user_db, "balance", 0),
                                                 !.user = user_db])
                    /\ loc' = [loc EXCEPT ![p] = NoLoc]
               ELSE /\ loc' = [loc EXCEPT ![p] =
                            [NoLoc EXCEPT !.ts = now_s, !.upd = NewUser(now_s)]]
                    /\ pc' = [pc EXCEPT ![p] = "auth_set"]
                    /\ UNCHANGED resp

\* ref.set(new_user): replaces the node.
AuthSet(p) ==
    /\ pc[p] = "auth_set"
    /\ users' = [users EXCEPT ![req[p].uid] = loc[p].upd]
    /\ Respond(p, [NoResp EXCEPT !.code = 200, !.status = "ok",
                                 !.balance = loc[p].upd["balance"],
                                 !.user = loc[p].upd])
    /\ UNCHANGED <<clock, req, loc, pre, users0, nreq, db, mlog, call>>

\* ------------------------------------------------------------------ main.py

\* main.py serves Telegram updates (aiogram) and HTTP requests (aiohttp) on
\* one event loop; a handler's load_db .. save_full_db has no await in
\* between, so each handler is one step.

\* A served request: from_user is the sender Telegram names in an update
\* (None for an HTTP request, which names nobody), uid the id whose record
\* the handler addresses, before the content of users.json when it arrived.
MainReq(op, from_user, uid, at) ==
    [op |-> op, from_user |-> from_user, uid |-> uid, at |-> at,
     item |-> NotAnItem, payload |-> <<>>, charge |-> 0, referrer_id |-> None,
     data |-> NoRecord, before |-> db, outcome |-> "none",
     load_ok |-> TRUE, save_ok |-> TRUE]

\* Mutant: the handler read the file before the handler served just before
\* it saved, as if it had yielded between its load and its save.
LoadDb_Stale(load_ok) ==
    IF ~load_ok THEN [u \in UserIds |-> NoRecord]
    ELSE IF mlog = <<>> THEN db
    ELSE mlog[Len(mlog)].before

\* load_db: the content of users.json, or {} when the file cannot be read or
\* parsed (both exceptions are caught and answered with an empty dictionary).
LoadDb(load_ok) == IF load_ok THEN db ELSE [u \in UserIds |-> NoRecord]

\* save_full_db(data): users.json after the call; a failed write is caught
\* and leaves the file as it was (the data goes to a temporary file first).
SaveFullDb(data, save_ok) == IF save_ok THEN data ELSE db

\* The handler runs at time now and leaves entry e in the log.
Served(now, e) ==
    /\ nreq < MaxReqs
    /\ nreq' = nreq + 1
    /\ clock' = now
    /\ mlog' = Append(mlog, e)
    /\ UNCHANGED <<users, pc, req, loc, resp, pre, users0, call>>

\* The fields on_successful_payment sets for a catalog item.
PaymentUpdates(user_data, item, now) ==
    IF item.type = "coin"
    THEN "balance" :> (user_data["balance"] + item.amount)
    ELSE LET field == IF item.type = "booster" THEN "booster_end" ELSE "autotap_end"
             got == Get(user_data, field, now)
             current_end == IF got < now THEN now ELSE got
         IN  field :> (current_end + item.amount * MS_PER_SECOND)

\* on_successful_payment: the payment confirmation (charge names the payment)
\* sent by from_user with an invoice payload.
OnSuccessfulPaymentIO(inp, load_ok, save_ok) ==
    \E delay \in inp.delays, from_user \in inp.senders,
       payload \in inp.payloads, charge \in inp.charges :
        LET now == clock + delay
            parts == SplitOnce(payload)
            item_id == IF Len(parts) = 2 THEN CatalogKey(parts[2]) ELSE NotAnItem
            e == [MainReq("successful_payment", from_user, from_user, now) EXCEPT
                     !.payload = payload, !.charge = charge, !.item = item_id,
                     !.load_ok = load_ok, !.save_ok = save_ok]
            loaded == LoadDb(load_ok)
        IN  IF Len(parts) # 2
            THEN \* ValueError in the unpacking, caught
                 /\ Served(now, [e EXCEPT !.outcome = "error"])
                 /\ UNCHANGED db
            ELSE IF item_id \notin DOMAIN GameConfig_SHOP_ITEMS
            THEN /\ Served(now, [e EXCEPT !.outcome = "item_error"])
                 /\ UNCHANGED db
            ELSE IF ~Exists(loaded[from_user])
            THEN /\ Served(now, [e EXCEPT !.outcome = "no_user"])
                 /\ UNCHANGED db
            ELSE /\ Served(now, [e EXCEPT !.outcome = "ok"])
                 /\ db' = SaveFullDb([loaded EXCEPT ![from_user] =
                              Merge(@, PaymentUpdates(@, GameConfig_SHOP_ITEMS[item_id], now))],
                                     save_ok)

\* on_successful_payment with the file read and written.
OnSuccessfulPayment(inp) == OnSuccessfulPaymentIO(inp, TRUE, TRUE)

\* Mutant: a repeated /start that also stores its start parameter.
ExistingUserUpdates_Referrer(referrer_id, now) ==
    ("last_active" :> now) @@ ("referredBy" :> referrer_id)

\* The fields register_user sets for a user who has a record (username and
\* first_name left out); the referrer id is not looked at.
ExistingUserUpdates(referrer_id, now) == "last_active" :> now

\* Mutant: the bonus paid without the referee entered in the list.
ReferrerUpdates_NoList(referrer, uid) ==
    "balance" :> (Get(referrer, "balance", 0) + REFERRAL_BONUS)

\* Mutant: the referrer paid the bonus twice over.
ReferrerUpdates_Double(referrer, uid) ==
    ("balance" :> (Get(referrer, "balance", 0) + 2 * REFERRAL_BONUS))
    @@ ("referrals" :> Append(Get(referrer, "referrals", <<>>), uid))

\* What register_user writes to the referrer's record: the bonus, and the
\* new user's id appended to referrals (created when missing).
ReferrerUpdates(referrer, uid) ==
    ("balance" :> (Get(referrer, "balance", 0) + REFERRAL_BONUS))
    @@ ("referrals" :> Append(Get(referrer, "referrals", <<>>), uid))

\* Mutant: the referral taken without looking the referrer up.
Referred_Unchecked(store, uid, referrer_id) ==
    /\ referrer_id # None
    /\ referrer_id # uid

\* register_user's referral test:
\* referrer_id and referrer_id != uid_str and referrer_id in db
Referred(store, uid, referrer_id) ==
    /\ referrer_id # None
    /\ referrer_id # uid
    /\ referrer_id \in UserIds
    /\ Exists(store[referrer_id])

\* cmd_start and register_user: /start sent by from_user, with the start
\* parameter referrer_id (None: no parameter).  MAINTENANCE_MODE is off.
CmdStartIO(inp, load_ok, save_ok) ==
    \E delay \in inp.delays, from_user \in inp.senders, referrer_id \in inp.args :
        LET now == clock + delay
            e == [MainReq("start", from_user, from_user, now) EXCEPT
                     !.referrer_id = referrer_id,
                     !.load_ok = load_ok, !.save_ok = save_ok]
            loaded == LoadDb(load_ok)
            referred == Referred(loaded, from_user, referrer_id)
            new_user == [DefaultSchema(now) EXCEPT
                            !.referredBy = IF referred THEN referrer_id ELSE None,
                            !.balance = IF referred THEN @ + REFERRAL_BONUS ELSE @]
        IN  IF Exists(loaded[from_user])
            THEN /\ Served(now, [e EXCEPT !.outcome = "existing"])
                 /\ db' = SaveFullDb([loaded EXCEPT ![from_user] =
                                         Merge(@, ExistingUserUpdates(referrer_id, now))],
                                     save_ok)
            ELSE /\ Served(now, [e EXCEPT !.outcome = "new"])
                 /\ db' = SaveFullDb(
                            [u \in UserIds |->
                              IF u = from_user THEN new_user
                              ELSE IF referred /\ u = referrer_id
                              THEN Merge(loaded[u], ReferrerUpdates(loaded[u], from_user))
                              ELSE loaded[u]], save_ok)

\* /start with the file read and written.
CmdStart(inp) == CmdStartIO(inp, TRUE, TRUE)

\* The fields update_user_progress copies from the client's data.
ProgressFields == {"balance", "tonBalance", "level", "currentLevelScore", "tapCount"}

\* api_sync_user_data and update_user_progress: POST /sync-user-data with a
\* JSON body of numbers; the user id is the body's user_id.
ApiSyncUserDataIO(inp, load_ok, save_ok) ==
    \E delay \in inp.delays, body \in inp.bodies :
        LET now == clock + delay
            user_id == body.user_id
            e == [MainReq("sync_user_data", None, user_id, now) EXCEPT
                     !.data = body.data, !.load_ok = load_ok, !.save_ok = save_ok]
            clean_data == [f \in DOMAIN body.data \cap ProgressFields |-> body.data[f]]
            loaded == LoadDb(load_ok)
        IN  IF user_id = None
            THEN /\ Served(now, [e EXCEPT !.outcome = "missing_id"])
                 /\ UNCHANGED db
            ELSE IF ~(user_id \in UserIds /\ Exists(loaded[user_id]))
            THEN /\ Served(now, [e EXCEPT !.outcome = "not_found"])
                 /\ UNCHANGED db
            ELSE /\ Served(now, [e EXCEPT !.outcome = "ok"])
                 /\ db' = SaveFullDb([loaded EXCEPT ![user_id] =
                              Merge(Merge(@, clean_data), "last_active" :> now)], save_ok)

\* POST /sync-user-data with the file read and written.
ApiSyncUserData(inp) == ApiSyncUserDataIO(inp, TRUE, TRUE)

\* The inputs of main.py's requests:
\*   senders   the Telegram users sending updates
\*   args      start parameters: none, user 1, user 3
\*   payloads  invoice payloads: as api_create_invoice builds them, for the
\*             sender or for another user; as backend.py builds them; and
\*             one with no underscore
\*   charges   payment ids (telegram_payment_charge_id)
\*   bodies    bodies of /sync-user-data
MainInputs ==
    [delays   |-> {0, 86400000},
     senders  |-> {1, 3},
     args     |-> {None, 1, 3, NoSuchUser},
     payloads |-> {ApiCreateInvoicePayload(1, "coin_starter"),
                   ApiCreateInvoicePayload(1, "booster_3d"),
                   ApiCreateInvoicePayload(2, "autotap_1d"),
                   CreateInvoicePayload("coin_starter", 1),
                   <<"gift">>},
     charges  |-> {1, 2},
     bodies   |-> [user_id : {None, 2, 3},
                   data : {"balance" :> 0, ("balance" :> 1000000) @@ ("level" :> 9)}]]

\* ---------------------------------------------------------- specifications

\* One step of worker p.
Step(p, inp) ==
    \/ AuthBegin(p, inp)
    \/ AuthSet(p)
    \/ SyncBegin(p, inp)
    \/ SyncCommission(p)
    \/ SyncUpdate(p)
    \/ SpinBegin(p, inp)
    \/ SpinUpdate(p)
    \/ PerksBegin(p, inp)
    \/ Webhook(p, inp)
    \/ PerksUpdate(p)

\* One worker: each request runs to its response before the next is taken.
Next == \E p \in OneWorker : Step(p, Inputs)

Spec == Init /\ [][Next]_vars

\* Two workers: the handlers interleave at their store reads and writes.
NextConc == \E p \in TwoWorkers : Step(p, Inputs)

SpecConc == Init /\ [][NextConc]_vars

\* One worker and a store whose commission transaction may raise.
NextFault ==
    \/ Next
    \/ \E p \in OneWorker : SyncCommissionFails(p)

SpecFault == Init /\ [][NextFault]_vars

\* One worker and a store whose record write may raise.
NextWriteFault ==
    \/ Next
    \/ \E p \in OneWorker : SyncUpdateFails(p)

SpecWriteFault == Init /\ [][NextWriteFault]_vars

\* The verifier alone, over its arguments.
NextVerify == VerifyCall

SpecVerify == Init /\ [][NextVerify]_vars

\* main.py: its handlers, one at a time.
NextMain ==
    \/ CmdStart(MainInputs)
    \/ OnSuccessfulPayment(MainInputs)
    \/ ApiSyncUserData(MainInputs)

SpecMain == Init /\ [][NextMain]_vars

\* The inputs of the requests served while users.json fails.
MainFaultInputs ==
    [delays   |-> {0},
     senders  |-> {1, 3},
     args     |-> {None, 1},
     payloads |-> {ApiCreateInvoicePayload(1, "coin_starter"), <<"gift">>},
     charges  |-> {1},
     bodies   |-> [user_id : {None, 2}, data : {"balance" :> 0}]]

\* main.py with a file that may fail: any handler may run while users.json
\* cannot be read, or cannot be written, or both.
NextMainFault ==
    \/ NextMain
    \/ \E load_ok, save_ok \in BOOLEAN :
          /\ ~(load_ok /\ save_ok)
          /\ \/ CmdStartIO(MainFaultInputs, load_ok, save_ok)
             \/ OnSuccessfulPaymentIO(MainFaultInputs, load_ok, save_ok)
             \/ ApiSyncUserDataIO(MainFaultInputs, load_ok, save_ok)

SpecMainFault == Init /\ [][NextMainFault]_vars

\* The inputs of the purchase reconcilers alone: purchases up to four days
\* apart (a 3-day perk has expired by then, a 1-day perk expires at the very
\* moment of a purchase a day later), by user 2 and by the unknown user 3.
ShopInputs ==
    [delays   |-> {0, 86400000, 4 * 86400000},
     buyers   |-> {2, 3},
     items    |-> {"coin_starter", "booster_3d", "autotap_1d", NotAnItem},
     senders  |-> {2, 3},
     payloads |-> {ApiCreateInvoicePayload(2, "coin_starter"),
                   ApiCreateInvoicePayload(2, "booster_3d"),
                   ApiCreateInvoicePayload(2, "autotap_1d"),
                   CreateInvoicePayload("coin_starter", 2),
                   <<"gift">>},
     charges  |-> {1}]

\* The purchase reconcilers of both servers, each on its own store, and the
\* webhook that delivers a payment to backend.py's.
NextShop ==
    \/ \E p \in OneWorker : PerksBegin(p, ShopInputs) \/ PerksUpdate(p)
    \/ \E p \in OneWorker : Webhook(p, ShopInputs)
    \/ OnSuccessfulPayment(ShopInputs)

SpecShop == Init /\ [][NextShop]_vars

\* The inputs of a booster's life: a purchase and tap-syncs at once, half a
\* second later, or three days later, which is the length of the booster.
BoostInputs ==
    [delays |-> {0, 500, 3 * MS_PER_DAY},
     buyers |-> {1, 2},
     items  |-> {"booster_3d", "coin_starter"},
     datas  |-> {SignedFor(BOT_TOKEN, 1), SignedFor(BOT_TOKEN, 2)},
     taps   |-> {10, 40}]

\* The purchase reconciler and the tap reconciler of backend.py.
NextBoost ==
    \E p \in OneWorker :
        \/ PerksBegin(p, BoostInputs)
        \/ PerksUpdate(p)
        \/ SyncBegin(p, BoostInputs)
        \/ SyncCommission(p)
        \/ SyncUpdate(p)

SpecBoost == Init /\ [][NextBoost]_vars

\* A store in which users 1 (level 1) and 3 (level 2) were both referred by
\* user 2, who was referred by nobody; all three last synced a second ago.
InitTeam ==
    /\ users = [u \in UserIds |->
                  CASE u = 1 -> StoredUser(100, 1, (StartClock \div 1000) - 1, 2)
                    [] u = 2 -> StoredUser(INITIAL_BALANCE, 2, (StartClock \div 1000) - 1, None)
                    [] OTHER -> StoredUser(300, 2, (StartClock \div 1000) - 1, 2)]
    /\ users0 = users
    /\ clock = StartClock
    /\ pc = [p \in Workers |-> "idle"]
    /\ req = [p \in Workers |-> NoReq]
    /\ loc = [p \in Workers |-> NoLoc]
    /\ resp = [p \in Workers |-> NoResp]
    /\ pre = [p \in Workers |-> users]
    /\ nreq = 0
    /\ db = InitDb
    /\ mlog = <<>>
    /\ call = NoCall

\* The tap-syncs of the three: at once or a second apart, 20 or 50 taps.
TeamInputs ==
    [delays |-> {0, 1000},
     datas  |-> {SignedFor(BOT_TOKEN, u) : u \in UserIds},
     taps   |-> {20, 50}]

\* Two workers serving tap-syncs, interleaved at their store reads and writes.
NextTeam ==
    \E p \in TwoWorkers :
        \/ SyncBegin(p, TeamInputs)
        \/ SyncCommission(p)
        \/ SyncUpdate(p)

SpecTeam == InitTeam /\ [][NextTeam]_vars

\* A users.json that holds user 1 alone: users 2 and 3 have yet to join.
InitPair ==
    /\ users = [u \in UserIds |->
                  CASE u = 1 -> StoredUser(100, 1, (StartClock \div 1000) - 1, None)
                    [] OTHER -> NoRecord]
    /\ users0 = users
    /\ clock = StartClock
    /\ pc = [p \in Workers |-> "idle"]
    /\ req = [p \in Workers |-> NoReq]
    /\ loc = [p \in Workers |-> NoLoc]
    /\ resp = [p \in Workers |-> NoResp]
    /\ pre = [p \in Workers |-> users]
    /\ nreq = 0
    /\ db = [u \in UserIds |->
                IF u = 1 THEN DefaultSchema(StartClock) ELSE NoRecord]
    /\ mlog = <<>>
    /\ call = NoCall

\* The updates that are pending on main.py's event loop together: /start
\* from any of the three, with user 1's link or none, and the payment of a
\* coin pack by any of them.
PairInputs ==
    [delays   |-> {0, 1000},
     senders  |-> UserIds,
     args     |-> {None, 1},
     payloads |-> {ApiCreateInvoicePayload(1, "coin_starter"),
                   ApiCreateInvoicePayload(2, "coin_starter")},
     charges  |-> {1}]

\* main.py's event loop runs the pending handlers in any order; a handler
\* has no await between load_db and save_full_db (register_user is a plain
\* function, on_successful_payment awaits only after its save), so each
\* runs its load, change and save as one step.
NextMainPair ==
    \/ CmdStart(PairInputs)
    \/ OnSuccessfulPayment(PairInputs)

SpecMainPair == InitPair /\ [][NextMainPair]_vars

\* ------------------------------------------------------------------ claims

\* Worker p has answered a request of kind op made by a verified user.
Answered(p, op) ==
    /\ pc[p] = "idle"
    /\ req[p].op = op
    /\ req[p].uid # None

\* The anti-cheat cap as the specification states it: elapsed * 15 + 50, with
\* elapsed = now - lastSyncAt in seconds (5 when lastSyncAt is unset).
ClaimCap(before, at) ==
    LET now == at \div 1000
    IN  (now - Get(before, "last_sync", now - 5)) * 15 + 50

\* The earned amount as the specification states it: claimedTaps * level *
\* multiplier, the multiplier 2 iff boosterExpiresAt > now.
ClaimEarned(before, taps, at) ==
    taps * Get(before, "level", 1)
         * (IF Get(before, "boosterEndTime", 0) > (at \div 1000) * 1000 THEN 2 ELSE 1)

\* C1: a tap-sync of an existing user with claimedTaps <= elapsed*15+50 is
\* answered ok, and the user's balance afterwards, which is the balance
\* returned, is the balance before plus claimedTaps*level*multiplier.
C1_AcceptedSyncCredits ==
    \A p \in OneWorker :
        (/\ Answered(p, "sync_taps")
         /\ Exists(pre[p][req[p].uid])
         /\ req[p].taps <= ClaimCap(pre[p][req[p].uid], req[p].at))
        => LET u == req[p].uid
               before == pre[p][u]
           IN  /\ resp[p].status = "ok"
               /\ Get(users[u], "balance", 0)
                    = Get(before, "balance", 0) + ClaimEarned(before, req[p].taps, req[p].at)
               /\ resp[p].balance = Get(users[u], "balance", 0)

\* C1's case: a boosted user at level 1 had 65 taps accepted one second after
\* the last sync (the cap exactly).
C1_Witness ==
    /\ Answered(1, "sync_taps")
    /\ resp[1].status = "ok"
    /\ req[1].taps = 65
    /\ req[1].taps = ClaimCap(pre[1][req[1].uid], req[1].at)
    /\ Get(pre[1][req[1].uid], "boosterEndTime", 0) > req[1].at
    /\ Get(users[req[1].uid], "balance", 0) = Get(pre[1][req[1].uid], "balance", 0) + 130

\* C2: a tap-sync with claimedTaps > elapsed*15+50 is answered rejected with
\* the current balance, and the store is left as it was: no balance, tapCount
\* or lastSyncAt changes and no referrer is credited.
C2_RejectedSyncMutatesNothing ==
    \A p \in OneWorker :
        (/\ Answered(p, "sync_taps")
         /\ Exists(pre[p][req[p].uid])
         /\ req[p].taps > ClaimCap(pre[p][req[p].uid], req[p].at))
        => /\ resp[p].status = "rejected"
           /\ resp[p].balance = Get(pre[p][req[p].uid], "balance", 0)
           /\ users = pre[p]

\* C2's case: 66 taps claimed one second after the last sync (cap 65) by a
\* user with a referrer were rejected.
C2_Witness ==
    /\ Answered(1, "sync_taps")
    /\ req[1].taps = 66
    /\ ClaimCap(pre[1][req[1].uid], req[1].at) = 65
    /\ Get(pre[1][req[1].uid], "referredBy", None) # None
    /\ resp[1].status = "rejected"

\* C3: no step makes any user's balance or secondaryBalance smaller.
C3_BalancesNeverDecrease ==
    [][\A u \in UserIds :
          /\ Get(users'[u], "balance", 0) >= Get(users[u], "balance", 0)
          /\ Get(users'[u], "tonBalance", 0) >= Get(users[u], "tonBalance", 0)]_vars

\* C4: an accepted tap-sync and a currency grant for the same user, run by two
\* workers in any interleaving, leave the balance at the initial balance plus
\* the earned amount plus the grant.
C4_SyncAndGrantBothApplied ==
    (/\ nreq = 2
     /\ Answered(1, "sync_taps") /\ resp[1].status = "ok"
     /\ Answered(2, "update_user_perks") /\ resp[2].applied
     /\ req[2].item = "coin_starter"
     /\ req[1].uid = req[2].uid
     /\ req[1].taps > 0)
    => LET u == req[1].uid
       IN  Get(users[u], "balance", 0)
             = Get(users0[u], "balance", 0)
               + ClaimEarned(users0[u], req[1].taps, req[1].at) + 5000

\* C5: after an accepted tap-sync of a user whose referredBy names an existing
\* record, the referrer's balance is its balance before plus floor(earned*0.10)
\* when earned > 10 and its balance before otherwise; with no referredBy no
\* other user's balance changes.
C5_ReferrerCommission ==
    \A p \in OneWorker :
        (Answered(p, "sync_taps") /\ resp[p].status = "ok")
        => LET u == req[p].uid
               before == pre[p][u]
               earned == ClaimEarned(before, req[p].taps, req[p].at)
               referrer == Get(before, "referredBy", None)
           IN  \A r \in UserIds \ {u} :
                  Exists(pre[p][r])
                  => Get(users[r], "balance", 0)
                       = Get(pre[p][r], "balance", 0)
                         + (IF r = referrer /\ earned > 10 THEN earned \div 10 ELSE 0)

\* C5's case: user 1, referred by 2, earned 65, and 2 was credited 6.
C5_Witness ==
    /\ Answered(1, "sync_taps") /\ resp[1].status = "ok"
    /\ req[1].uid = 1 /\ req[1].taps = 65
    /\ Get(pre[1][1], "referredBy", None) = 2
    /\ Get(pre[1][1], "boosterEndTime", 0) = 0
    /\ Get(users[2], "balance", 0) = Get(pre[1][2], "balance", 0) + 6

\* C6: an accepted tap-sync whose user's referredBy names an id with no record
\* writes nothing under that id: the id still has no record.
C6_NoWriteUnderMissingReferrer ==
    \A p \in OneWorker :
        (Answered(p, "sync_taps") /\ resp[p].status = "ok")
        => LET referrer == Get(pre[p][req[p].uid], "referredBy", None)
           IN  (referrer # None /\ ~Exists(pre[p][referrer])) => ~Exists(users[referrer])

\* C7: when crediting the commission fails (the transaction raises, or the
\* referrer has no record), the referee's tap-sync is answered ok and its
\* balance, tapCount and lastSyncAt are updated as without a referrer.
C7_CommissionFailureKeepsSync ==
    \A p \in OneWorker :
        (/\ Answered(p, "sync_taps")
         /\ Exists(pre[p][req[p].uid])
         /\ req[p].taps <= ClaimCap(pre[p][req[p].uid], req[p].at)
         /\ LET referrer == Get(pre[p][req[p].uid], "referredBy", None)
            IN  \/ loc[p].comm_failed
                \/ (referrer # None /\ ~Exists(pre[p][referrer])))
        => LET u == req[p].uid
               before == pre[p][u]
           IN  /\ resp[p].status = "ok"
               /\ Get(users[u], "balance", 0)
                    = Get(before, "balance", 0) + ClaimEarned(before, req[p].taps, req[p].at)
               /\ Get(users[u], "tapCount", 0) = Get(before, "tapCount", 0) + req[p].taps
               /\ Get(users[u], "last_sync", 0) = req[p].at \div 1000
               /\ resp[p].balance = Get(users[u], "balance", 0)

\* C7's case: the commission transaction raised and the sync was answered.
C7_Witness ==
    /\ Answered(1, "sync_taps")
    /\ loc[1].comm_failed
    /\ resp[1].status = "ok"
    /\ users[2] = pre[1][2]

\* C8: a reward draw requested less than 24h after the last one is refused
\* and mutates nothing.
C8_DrawRefusedInCooldown ==
    \A p \in OneWorker :
        (/\ Answered(p, "spin_wheel")
         /\ "lastSpinTime" \in DOMAIN pre[p][req[p].uid]
         /\ req[p].at - pre[p][req[p].uid]["lastSpinTime"] < 86400000)
        => /\ resp[p].status = "cooldown"
           /\ resp[p].code = 400
           /\ users = pre[p]

\* C8's case: a draw requested right after a successful one was refused.
C8_Witness ==
    /\ Answered(1, "spin_wheel")
    /\ "lastSpinTime" \in DOMAIN pre[1][req[1].uid]
    /\ req[1].at - pre[1][req[1].uid]["lastSpinTime"] < 86400000
    /\ resp[1].status = "cooldown"

\* C9: two successful draws of one user, also when two workers process them
\* concurrently, are at least 24h apart and both prizes are added.
C9_OneDrawPerWindow ==
    (/\ nreq = 2
     /\ Answered(1, "spin_wheel") /\ resp[1].status = "ok"
     /\ Answered(2, "spin_wheel") /\ resp[2].status = "ok"
     /\ req[1].uid = req[2].uid)
    => LET u == req[1].uid
           apart == IF req[1].at >= req[2].at THEN req[1].at - req[2].at
                    ELSE req[2].at - req[1].at
       IN  /\ apart >= 86400000
           /\ Get(users[u], "tonBalance", 0)
                = Get(users0[u], "tonBalance", 0) + resp[1].prize + resp[2].prize

\* C10: a reward draw requested by a verified user 24h or more after the
\* last one, or when none was recorded, succeeds: it returns an index of the
\* prize table, that prize and the new secondaryBalance, which is the old one
\* plus the prize, and sets lastRewardDrawAt to now.
C10_EligibleDrawPays ==
    \A p \in OneWorker :
        (/\ Answered(p, "spin_wheel")
         /\ \/ "lastSpinTime" \notin DOMAIN pre[p][req[p].uid]
            \/ req[p].at - pre[p][req[p].uid]["lastSpinTime"] >= 86400000)
        => LET u == req[p].uid
               before == pre[p][u]
           IN  /\ resp[p].status = "ok"
               /\ resp[p].index \in 1..8
               /\ resp[p].prize = <<1, 10, 50, 100, 500, 1000, 5, 20>>[resp[p].index]
               /\ Get(users[u], "tonBalance", 0) = Get(before, "tonBalance", 0) + resp[p].prize
               /\ Get(users[u], "lastSpinTime", 0) = req[p].at
               /\ resp[p].new_ton = Get(users[u], "tonBalance", 0)

\* C10's case: a second draw, exactly 24h after the first, paid on top of it.
C10_Witness ==
    /\ Answered(1, "spin_wheel")
    /\ "lastSpinTime" \in DOMAIN pre[1][req[1].uid]
    /\ req[1].at - pre[1][req[1].uid]["lastSpinTime"] = 86400000
    /\ resp[1].status = "ok"
    /\ Get(pre[1][req[1].uid], "tonBalance", 0) > 0
    /\ Get(users[req[1].uid], "tonBalance", 0)
         = Get(pre[1][req[1].uid], "tonBalance", 0) + resp[1].prize

\* C11: a reward draw refused because of the cooldown is answered with a
\* failure that carries the remaining wait, COOLDOWN - (now - lastRewardDrawAt).
C11_RefusalCarriesRemainingWait ==
    \A p \in OneWorker :
        (Answered(p, "spin_wheel") /\ resp[p].status = "cooldown")
        => resp[p].wait
             = 86400000 - (req[p].at - Get(pre[p][req[p].uid], "lastSpinTime", 0))

\* The later of two times.
Later(a, b) == IF a >= b THEN a ELSE b

\* The last request main.py served.
Last == mlog[Len(mlog)]

\* The expiry field a timed perk of the given type is kept in.
ExpiryField(type) == IF type = "booster" THEN "boosterEndTime" ELSE "autotapEndTime"
MainExpiryField(type) == IF type = "booster" THEN "booster_end" ELSE "autotap_end"

\* C12: applying a purchase of a timed perk (booster or autotap) sets that
\* perk's expiry to max(now, currentExpiry) + duration, currentExpiry being
\* the expiry stored before the purchase, not active when absent; in
\* update_user_perks and in on_successful_payment alike.
C12_TimedPerkExpiry ==
    /\ \A p \in OneWorker :
          (/\ Answered(p, "update_user_perks")
           /\ resp[p].applied
           /\ SHOP_ITEMS[req[p].item].type \in {"booster", "autotap"})
          => LET u == req[p].uid
                 item == SHOP_ITEMS[req[p].item]
                 field == ExpiryField(item.type)
             IN  Get(users[u], field, 0)
                   = Later(req[p].at, Get(pre[p][u], field, 0)) + item.duration * 86400000
    /\ (/\ mlog # <<>>
         /\ Last.op = "successful_payment"
         /\ Last.outcome = "ok"
         /\ GameConfig_SHOP_ITEMS[Last.item].type \in {"booster", "autotap"})
        => LET item == GameConfig_SHOP_ITEMS[Last.item]
               field == MainExpiryField(item.type)
           IN  Get(db[Last.uid], field, 0)
                 = Later(Last.at, Get(Last.before[Last.uid], field, 0)) + item.amount * 1000

\* C12's cases: in both servers user 2, whose autotap has a day left, buys a
\* 1-day autotap, which then has two days left.
C12_Witness ==
    /\ Answered(1, "update_user_perks") /\ resp[1].applied
    /\ req[1].item = "autotap_1d"
    /\ Get(pre[1][req[1].uid], "autotapEndTime", 0) = req[1].at + 86400000
    /\ Get(users[req[1].uid], "autotapEndTime", 0) = req[1].at + 2 * 86400000
    /\ mlog # <<>>
    /\ Last.op = "successful_payment" /\ Last.outcome = "ok"
    /\ Last.item = "autotap_1d"
    /\ Get(Last.before[Last.uid], "autotap_end", 0) = Last.at + 86400000
    /\ Get(db[Last.uid], "autotap_end", 0) = Last.at + 2 * 86400000

\* C13: when update_user_perks reconciles two purchases of a 3-day booster
\* for one user and the first booster is still active at the second grant,
\* the resulting expiry is at least firstExpiry + duration2, however the two
\* workers' store reads and writes interleave.
C13_StackedPerksBothCount ==
    (/\ nreq = 2
     /\ Answered(1, "update_user_perks") /\ resp[1].applied
     /\ Answered(2, "update_user_perks") /\ resp[2].applied
     /\ req[1].uid = req[2].uid
     /\ req[1].item = "booster_3d" /\ req[2].item = "booster_3d")
    => LET u == req[1].uid
           first == IF req[1].at <= req[2].at THEN req[1].at ELSE req[2].at
           second == Later(req[1].at, req[2].at)
           firstExpiry == Later(first, Get(users0[u], "boosterEndTime", 0)) + 3 * 86400000
       IN  firstExpiry > second
           => Get(users[u], "boosterEndTime", 0) >= firstExpiry + 3 * 86400000

\* C14: a payload of the form itemId_userId, as create_invoice builds it for
\* a catalog item and a user id, is parsed by /webhook back into that item
\* and that user, and the item's effect is applied to that user: a currency
\* grant is added, a timed perk's expiry becomes max(now, currentExpiry) +
\* duration (booster_15d and a booster not active: now + 15 days).
C14_PayloadRoundTrip ==
    \A p \in OneWorker : \A i \in DOMAIN SHOP_ITEMS, u \in UserIds :
        (/\ pc[p] = "idle"
         /\ req[p].op = "webhook"
         /\ loc[p].data = CreateInvoicePayload(i, u))
        => /\ req[p].item = i
           /\ req[p].uid = u
           /\ resp[p].applied
           /\ IF SHOP_ITEMS[i].type = "coin"
              THEN Get(users[u], "balance", 0)
                     = Get(pre[p][u], "balance", 0) + SHOP_ITEMS[i].reward
              ELSE Get(users[u], ExpiryField(SHOP_ITEMS[i].type), 0)
                     = Later(req[p].at, Get(pre[p][u], ExpiryField(SHOP_ITEMS[i].type), 0))
                       + SHOP_ITEMS[i].duration * 86400000

\* Record after differs from record before in no field other than f.
OnlyFieldChanged(before, after, f) ==
    /\ DOMAIN after \ {f} = DOMAIN before \ {f}
    /\ \A g \in DOMAIN before \ {f} : after[g] = before[g]

\* C15: reconciling a purchase of a currency item adds exactly the item's
\* grant to the user's balance and leaves every other field of the user
\* (perk expiries, secondaryBalance, level, tapCount) as it was; reconciling a
\* timed perk changes only that perk's expiry field; in update_user_perks and
\* in on_successful_payment alike.
C15_PurchaseFrame ==
    /\ \A p \in OneWorker :
          (Answered(p, "update_user_perks") /\ resp[p].applied)
          => LET u == req[p].uid
                 item == SHOP_ITEMS[req[p].item]
             IN  IF item.type = "coin"
                 THEN /\ Get(users[u], "balance", 0) = Get(pre[p][u], "balance", 0) + item.reward
                      /\ OnlyFieldChanged(pre[p][u], users[u], "balance")
                 ELSE OnlyFieldChanged(pre[p][u], users[u], ExpiryField(item.type))
    /\ (mlog # <<>> /\ Last.op = "successful_payment" /\ Last.outcome = "ok")
        => LET u == Last.uid
               item == GameConfig_SHOP_ITEMS[Last.item]
           IN  IF item.type = "coin"
               THEN /\ db[u].balance = Last.before[u].balance + item.amount
                    /\ OnlyFieldChanged(Last.before[u], db[u], "balance")
               ELSE OnlyFieldChanged(Last.before[u], db[u], MainExpiryField(item.type))

\* C15's cases: in both servers user 2, who has an autotap running, was
\* granted the 5000 coins of coin_starter and kept the autotap's expiry.
C15_Witness ==
    /\ Answered(1, "update_user_perks") /\ resp[1].applied
    /\ req[1].item = "coin_starter" /\ req[1].uid = 2
    /\ users[2]["balance"] = pre[1][2]["balance"] + 5000
    /\ users[2]["autotapEndTime"] = pre[1][2]["autotapEndTime"]
    /\ users[2]["autotapEndTime"] > req[1].at
    /\ mlog # <<>>
    /\ Last.op = "successful_payment" /\ Last.outcome = "ok"
    /\ Last.item = "coin_starter" /\ Last.uid = 2
    /\ db[2].balance = Last.before[2].balance + 5000
    /\ db[2]["autotap_end"] = Last.before[2]["autotap_end"]

\* The content of users.json after main.py served its j-th request.
DbAfter(j) == IF j = Len(mlog) THEN db ELSE mlog[j + 1].before

\* Requests i and j deliver the same payment confirmation, of an invoice
\* made for its sender.
SameConfirmation(i, j) ==
    /\ mlog[i].op = "successful_payment" /\ mlog[j].op = "successful_payment"
    /\ mlog[j].item \in DOMAIN GameConfig_SHOP_ITEMS
    /\ mlog[j].payload = ApiCreateInvoicePayload(mlog[j].from_user, mlog[j].item)
    /\ mlog[i].charge = mlog[j].charge
    /\ mlog[i].from_user = mlog[j].from_user
    /\ mlog[i].payload = mlog[j].payload

\* C16: purchase application is idempotent: a payment confirmation that is
\* delivered again changes nothing, the grant or perk extension having been
\* applied when it was first delivered.
C16_DuplicateDeliveryAppliesOnce ==
    \A j \in DOMAIN mlog :
        (\E i \in 1..(j - 1) : SameConfirmation(i, j))
        => DbAfter(j) = mlog[j].before

\* The canonical form as the specification states it: all non-hash fields,
\* sorted lexicographically (joined with newlines).
ClaimCanonical(data) ==
    LET fields == {i \in DOMAIN data : data[i].key # "hash"}
    IN  CHOOSE s \in [1..Cardinality(fields) -> {data[i] : i \in fields}] :
            /\ \A i \in fields : \E j \in DOMAIN s : s[j] = data[i]
            /\ \A j \in DOMAIN s : \A k \in DOMAIN s : j < k => PartLess(s[j], s[k])

\* HMAC(secret, canonical form), the secret being the key derived from the
\* bot token.
ClaimHash(token, data) ==
    [k |-> [k |-> "WebAppData", m |-> token], m |-> ClaimCanonical(data)]

\* C17: verify_telegram_data returns an identity only if the payload has a
\* hash field equal to HMAC(secret, canonical form); on a hash mismatch, a
\* missing hash, a missing or unparseable user field, or an unset bot token
\* it returns no identity; and it raises nothing.
C17_VerifierSound ==
    call.called
    => LET data == call.init_data
           hashes == {i \in DOMAIN data : data[i].key = "hash"}
           users_ == {i \in DOMAIN data : data[i].key = "user"}
       IN  /\ ~call.result.raised
           /\ call.result.user # None
              => \E i \in hashes : data[i].mac = ClaimHash(call.token, data)
           /\ (\/ call.token = NoToken
               \/ hashes = {}
               \/ \A i \in hashes : data[i].mac # ClaimHash(call.token, data)
               \/ users_ = {}
               \/ \A i \in users_ : data[i].val = BadJson)
              => call.result.user = None

\* C17's case: user 1 returned for fields sent out of order (query_id,
\* auth_date, user) with the hash of their sorted form under the bot's key.
C17_Witness ==
    /\ call.called
    /\ call.result.user = 1
    /\ call.init_data[1].key = "query_id"
    /\ call.init_data[4].mac = ClaimHash(BOT_TOKEN, call.init_data)

\* The header verifies, as the specification states it: it has a hash field
\* equal to HMAC(secret, canonical form) and a user field that parses.
ClaimVerifies(data) ==
    /\ \E i \in DOMAIN data : data[i].key = "hash" /\ data[i].mac = ClaimHash(BOT_TOKEN, data)
    /\ \E i \in DOMAIN data : data[i].key = "user" /\ data[i].val # BadJson

\* C18: when identity verification fails, /auth, /sync_taps and /spin_wheel
\* each answer Unauthorized (403) and the whole store is left as it was.
C18_UnauthorizedMutatesNothing ==
    \A p \in OneWorker :
        (/\ pc[p] = "idle"
         /\ req[p].op \in {"auth", "sync_taps", "spin_wheel"}
         /\ ~ClaimVerifies(call.init_data))
        => /\ resp[p].code = 403
           /\ resp[p].status = "error"
           /\ users = pre[p]

\* C18's case: after a request that changed the store, a tap-sync under
\* user 1's name with a hash made without the bot's token was answered 403.
C18_Witness ==
    /\ pc[1] = "idle"
    /\ req[1].op = "sync_taps"
    /\ call.init_data = SignedFor("guess", 1)
    /\ resp[1].code = 403
    /\ users = pre[1]
    /\ users # users0

\* C19: every request of main.py that changes a user's record comes from a
\* verified identity, and the record it changes is that identity's (the
\* referrer a /start names, who is credited the referral bonus, apart): no
\* request changes the record of a user it was not verified as.
C19_OnlyVerifiedOwnerMutates ==
    \A j \in DOMAIN mlog : \A u \in UserIds :
        DbAfter(j)[u] # mlog[j].before[u]
        => \/ mlog[j].from_user = u
           \/ (mlog[j].op = "start" /\ mlog[j].from_user # None /\ mlog[j].referrer_id = u)

\* C20: a tap-sync by a verified user who has no record is answered NotFound
\* (404) and creates no record: the store is left as it was.
C20_SyncUnknownUserNotFound ==
    \A p \in OneWorker :
        (/\ pc[p] = "idle"
         /\ req[p].op = "sync_taps"
         /\ ClaimVerifies(call.init_data)
         /\ DOMAIN pre[p][req[p].uid] = {})
        => /\ resp[p].code = 404
           /\ resp[p].status = "error"
           /\ DOMAIN users[req[p].uid] = {}
           /\ users = pre[p]

\* C20's case: user 3, signed by Telegram and without a record, synced 10 taps.
C20_Witness ==
    /\ pc[1] = "idle"
    /\ req[1].op = "sync_taps"
    /\ call.init_data = SignedFor(BOT_TOKEN, 3)
    /\ req[1].uid = 3
    /\ req[1].taps = 10
    /\ DOMAIN pre[1][3] = {}
    /\ resp[1].code = 404
    /\ DOMAIN users[3] = {}

\* C21: /auth with a valid signature creates, for a user with no record, the
\* record with the default values (balance 500, secondaryBalance 0, level 1,
\* lastSyncAt now, referralCount 0) and returns it; for a user with a record
\* it returns the stored record and changes nothing.
C21_AuthCreatesOrReturns ==
    \A p \in OneWorker :
        (/\ pc[p] = "idle"
         /\ req[p].op = "auth"
         /\ ClaimVerifies(call.init_data))
        => LET u == req[p].uid
           IN  /\ resp[p].code = 200
               /\ resp[p].user = users[u]
               /\ \A v \in UserIds \ {u} : users[v] = pre[p][v]
               /\ IF DOMAIN pre[p][u] = {}
                  THEN users[u] = [balance |-> 500, tonBalance |-> 0, level |-> 1,
                                   last_sync |-> req[p].at \div 1000, referralCount |-> 0]
                  ELSE users[u] = pre[p][u]

\* C21's case: user 3 authenticated a second time, a day after the /auth that
\* created the record, and got the stored record back, lastSyncAt included.
C21_Witness ==
    /\ pc[1] = "idle"
    /\ req[1].op = "auth"
    /\ req[1].uid = 3
    /\ DOMAIN users0[3] = {}
    /\ pre[1][3] = [balance |-> 500, tonBalance |-> 0, level |-> 1,
                    last_sync |-> (req[1].at - 86400000) \div 1000, referralCount |-> 0]
    /\ users[3] = pre[1][3]
    /\ resp[1].user = pre[1][3]

\* C22: reconciling a purchase whose user id has no record applies nothing
\* and leaves the set of user records as it was: update_user_perks answers
\* not applied with the store unchanged, and on_successful_payment leaves the
\* file store unchanged.
C22_PurchaseForUnknownUserAppliesNothing ==
    /\ \A p \in OneWorker :
          (/\ pc[p] = "idle"
           /\ req[p].op = "update_user_perks"
           /\ req[p].item \in DOMAIN SHOP_ITEMS
           /\ DOMAIN pre[p][req[p].uid] = {})
          => /\ resp[p].applied = FALSE
             /\ users = pre[p]
    /\ \A i \in 1..Len(mlog) :
          (/\ mlog[i].op = "successful_payment"
           /\ mlog[i].uid # None
           /\ DOMAIN mlog[i].before[mlog[i].uid] = {})
          => DbAfter(i) = mlog[i].before

\* C23: every record present in the store carries balance and level: no
\* operation on an unseen user id leaves a partial record.
C23_RecordsCarryDefaults ==
    \A u \in UserIds :
        DOMAIN users[u] # {} => {"balance", "level"} \subseteq DOMAIN users[u]

\* C23 for the reward draw alone: an answered /spin-wheel leaves no record
\* without balance and level under the caller's id.
C23_SpinLeavesNoPartialRecord ==
    \A p \in OneWorker :
        (pc[p] = "idle" /\ req[p].op = "spin_wheel" /\ resp[p].code = 200)
        => {"balance", "level"} \subseteq DOMAIN users[req[p].uid]

\* C24: when /start creates a record with a referrer id that names an existing
\* record other than the new user, the new record's referredBy is that
\* referrer and both balances receive the referral bonus of 5000; when the
\* referrer id is absent or names no existing record, referredBy stays empty,
\* the new balance is the initial 500 and no other record changes.
C24_ReferralOnCreation ==
    \A i \in 1..Len(mlog) :
        LET u == mlog[i].uid
            r == mlog[i].referrer_id
            before == mlog[i].before
            after == DbAfter(i)
            named == /\ r \in UserIds \ {u}
                     /\ DOMAIN before[r] # {}
        IN  (mlog[i].op = "start" /\ DOMAIN before[u] = {})
            => /\ DOMAIN after[u] # {}
               /\ IF named
                  THEN /\ after[u]["referredBy"] = r
                       /\ after[u]["balance"] = 500 + 5000
                       /\ after[r]["balance"] = before[r]["balance"] + 5000
                  ELSE /\ after[u]["referredBy"] = None
                       /\ after[u]["balance"] = 500
                       /\ \A v \in UserIds \ {u} : after[v] = before[v]

\* C24's case: user 3 joined through user 1's link and both got the bonus.
C24_Witness ==
    /\ mlog # <<>>
    /\ Last.op = "start"
    /\ Last.uid = 3
    /\ Last.referrer_id = 1
    /\ DOMAIN Last.before[3] = {}
    /\ db[3]["referredBy"] = 1
    /\ db[3]["balance"] = 5500
    /\ db[1]["balance"] = Last.before[1]["balance"] + 5000

\* C24's other case: user 3 joined with a start parameter that names no
\* record, and got the initial balance and no referrer.
C24_WitnessNoReferrer ==
    /\ mlog # <<>>
    /\ Last.op = "start"
    /\ Last.uid = 3
    /\ Last.referrer_id = NoSuchUser
    /\ db[3]["referredBy"] = None
    /\ db[3]["balance"] = 500
    /\ db[1] = Last.before[1]

\* C25: a user record, once created, exists in every later state: no step,
\* one during which a database load or save fails included, removes an
\* existing record from either store.
C25_RecordsAreNeverRemoved ==
    [][\A u \in UserIds :
          /\ DOMAIN db[u] # {} => DOMAIN db'[u] # {}
          /\ DOMAIN users[u] # {} => DOMAIN users'[u] # {}]_vars

\* The payload names a catalog item in the layout the server's own invoices
\* have: itemId_userId for backend.py, userId_itemId for main.py.
ClaimNamesItem(payload) ==
    /\ Len(payload) >= 2
    /\ \E i \in DOMAIN SHOP_ITEMS :
          SubSeq(payload, 1, Len(payload) - 1) = ItemPieces(i)

ClaimNamesItemMain(payload) ==
    /\ Len(payload) >= 2
    /\ \E i \in DOMAIN GameConfig_SHOP_ITEMS : Tail(payload) = ItemPieces(i)

\* C26: a payment confirmation whose payload has no delimiter or names no
\* catalog item is dropped: the handler completes (the webhook answers 200),
\* reports not applied, and no user record changes.
C26_BadPayloadIsDropped ==
    /\ \A p \in OneWorker :
          (/\ pc[p] = "idle"
           /\ req[p].op = "webhook"
           /\ ~ClaimNamesItem(loc[p].data))
          => /\ resp[p].code = 200
             /\ resp[p].applied = FALSE
             /\ users = pre[p]
    /\ \A i \in 1..Len(mlog) :
          (/\ mlog[i].op = "successful_payment"
           /\ ~ClaimNamesItemMain(mlog[i].payload))
          => /\ mlog[i].outcome \in {"error", "item_error"}
             /\ DbAfter(i) = mlog[i].before

\* C26's case: the webhook answered a payload without a delimiter, and a
\* payload whose item part is no catalog id reached on_successful_payment
\* from user 2, who has a record.
C26_Witness ==
    /\ pc[1] = "idle"
    /\ req[1].op = "webhook"
    /\ loc[1].data = <<"gift">>
    /\ resp[1].code = 200
    /\ mlog # <<>>
    /\ Last.op = "successful_payment"
    /\ Last.from_user = 2
    /\ Last.payload = CreateInvoicePayload("coin_starter", 2)
    /\ Last.outcome = "item_error"
    /\ db = Last.before

\* What an accepted tap-sync of worker p earned, over claimedTaps * level.
ClaimEarnedIs(p, multiplier) ==
    LET u == req[p].uid
    IN  users[u]["balance"] - pre[p][u]["balance"]
          = req[p].taps * pre[p][u]["level"] * multiplier

\* C27: with the booster expiry e the purchase reconciler stored for the user,
\* an accepted tap-sync at a time before e earns claimedTaps * level * 2, and
\* one at or after e, or with no expiry stored, earns claimedTaps * level;
\* the expiry and the time are both in milliseconds.
C27_BoosterMultiplier ==
    \A p \in OneWorker :
        (/\ pc[p] = "idle"
         /\ req[p].op = "sync_taps"
         /\ resp[p].status = "ok")
        => LET old == pre[p][req[p].uid]
               boosted == /\ "boosterEndTime" \in DOMAIN old
                          /\ old["boosterEndTime"] > req[p].at
           IN  ClaimEarnedIs(p, IF boosted THEN 2 ELSE 1)

\* The same with the time of the sync counted in whole seconds, as sync_taps
\* reads it.
C27_AtWholeSeconds ==
    \A p \in OneWorker :
        (/\ pc[p] = "idle"
         /\ req[p].op = "sync_taps"
         /\ resp[p].status = "ok")
        => LET old == pre[p][req[p].uid]
               boosted == /\ "boosterEndTime" \in DOMAIN old
                          /\ old["boosterEndTime"] > (req[p].at \div 1000) * 1000
           IN  ClaimEarnedIs(p, IF boosted THEN 2 ELSE 1)

\* The fields of a record that a tap-sync has to leave alone.
ClaimSyncFrame ==
    {"level", "tonBalance", "boosterEndTime", "autotapEndTime", "lastSpinTime",
     "referredBy"}

\* C28: an accepted tap-sync adds claimedTaps to the user's tapCount and sets
\* lastSyncAt to the current time, and leaves the user's level,
\* secondaryBalance, perk expiries, lastRewardDrawAt and referredBy as they
\* were.
C28_SyncFrame ==
    \A p \in OneWorker :
        (/\ pc[p] = "idle"
         /\ req[p].op = "sync_taps"
         /\ resp[p].status = "ok")
        => LET old == pre[p][req[p].uid]
               new == users[req[p].uid]
           IN  /\ {"tapCount", "last_sync"} \subseteq DOMAIN new
               /\ new["tapCount"]
                    = (IF "tapCount" \in DOMAIN old THEN old["tapCount"] ELSE 0)
                      + req[p].taps
               /\ new["last_sync"] = req[p].at \div 1000
               /\ DOMAIN new \cap ClaimSyncFrame = DOMAIN old \cap ClaimSyncFrame
               /\ \A f \in DOMAIN old \cap ClaimSyncFrame : new[f] = old[f]

\* C28's case: user 2, who holds an autotap expiry and has drawn a reward,
\* synced 10 taps a day later: tapCount is 10, lastSyncAt the time of the
\* sync, and level, expiry, draw time and referrer are those of before.
C28_Witness ==
    /\ pc[1] = "idle"
    /\ req[1].op = "sync_taps"
    /\ req[1].uid = 2
    /\ req[1].taps = 10
    /\ resp[1].status = "ok"
    /\ {"autotapEndTime", "lastSpinTime"} \subseteq DOMAIN pre[1][2]
    /\ users[2]["tapCount"] = 10
    /\ users[2]["last_sync"] = req[1].at \div 1000
    /\ users[2]["last_sync"] > pre[1][2]["last_sync"]
    /\ users[2]["lastSpinTime"] = pre[1][2]["lastSpinTime"]
    /\ users[2]["autotapEndTime"] = pre[1][2]["autotapEndTime"]
    /\ users[2]["level"] = 2
    /\ users[2]["referredBy"] = 3

\* C29: when two tap-syncs of the same user are processed by two workers and
\* both answer ok, the user's final balance is the initial balance plus the
\* earned amounts of both and the final tapCount the initial tapCount plus
\* both claimed counts, in every interleaving.
C29_ConcurrentSyncsBothCount ==
    (/\ nreq = 2
     /\ \A p \in TwoWorkers :
           /\ pc[p] = "idle"
           /\ req[p].op = "sync_taps"
           /\ resp[p].status = "ok"
           /\ req[p].taps > 0
     /\ req[1].uid = req[2].uid)
    => LET u == req[1].uid
       IN  /\ Get(users[u], "balance", 0)
                = Get(users0[u], "balance", 0)
                  + ClaimEarned(users0[u], req[1].taps, req[1].at)
                  + ClaimEarned(users0[u], req[2].taps, req[2].at)
           /\ Get(users[u], "tapCount", 0)
                = Get(users0[u], "tapCount", 0) + req[1].taps + req[2].taps

\* The commission the specification grants on an earned amount.
ClaimCommission(earned) == IF earned > 10 THEN earned \div 10 ELSE 0

\* C30: when the tap-syncs of two referees of the same referrer are processed
\* by two workers and both answer ok, the referrer's final balance is its
\* initial balance plus both commissions, in every interleaving.
C30_ConcurrentCommissionsBothCount ==
    \A r \in UserIds :
        (/\ nreq = 2
         /\ \A p \in TwoWorkers :
               /\ pc[p] = "idle"
               /\ req[p].op = "sync_taps"
               /\ resp[p].status = "ok"
               /\ req[p].uid # r
               /\ "referredBy" \in DOMAIN users0[req[p].uid]
               /\ users0[req[p].uid]["referredBy"] = r
         /\ req[1].uid # req[2].uid
         /\ DOMAIN users0[r] # {})
        => users[r]["balance"]
             = users0[r]["balance"]
               + ClaimCommission(ClaimEarned(users0[req[1].uid], req[1].taps, req[1].at))
               + ClaimCommission(ClaimEarned(users0[req[2].uid], req[2].taps, req[2].at))

\* C30's case: the syncs of users 1 and 3 (50 taps each, earning 50 and 100)
\* both arrived before either commission was credited to user 2, and user 2
\* ends with 500 + 5 + 10.
C30_Witness ==
    /\ nreq = 2
    /\ pc[1] = "idle" /\ pc[2] = "idle"
    /\ req[1].op = "sync_taps" /\ req[2].op = "sync_taps"
    /\ resp[1].status = "ok" /\ resp[2].status = "ok"
    /\ req[1].uid = 1 /\ req[2].uid = 3
    /\ req[1].taps = 50 /\ req[2].taps = 50
    /\ pre[1][2]["balance"] = 500
    /\ pre[2][2]["balance"] = 500
    /\ users[2]["balance"] = 515

\* C31: when the tap-sync of a referee and an accepted tap-sync of its
\* referrer are processed by two workers and both answer ok, the referrer's
\* final balance is its initial balance plus its own earned amount plus the
\* commission, in every interleaving.
C31_CommissionSurvivesReferrerSync ==
    \A p, q \in TwoWorkers :
        (/\ nreq = 2
         /\ p # q
         /\ pc[p] = "idle" /\ pc[q] = "idle"
         /\ req[p].op = "sync_taps" /\ req[q].op = "sync_taps"
         /\ resp[p].status = "ok" /\ resp[q].status = "ok"
         /\ req[p].uid # req[q].uid
         /\ "referredBy" \in DOMAIN users0[req[q].uid]
         /\ users0[req[q].uid]["referredBy"] = req[p].uid)
        => LET r == req[p].uid
               u == req[q].uid
           IN  users[r]["balance"]
                 = users0[r]["balance"]
                   + ClaimEarned(users0[r], req[p].taps, req[p].at)
                   + ClaimCommission(ClaimEarned(users0[u], req[q].taps, req[q].at))

\* C32: a referrer holds a commission for a tap-sync only if the referee's
\* earned amount for that sync was applied to the referee's balance: once a
\* tap-sync has ended, also by a failed record write, a referrer whose
\* balance grew through it implies a referee whose balance grew by the
\* earned amount.
C32_NoCommissionWithoutEarnings ==
    \A p \in OneWorker :
        (/\ pc[p] = "idle"
         /\ req[p].op = "sync_taps"
         /\ req[p].uid \in UserIds)
        => LET u == req[p].uid
               r == Get(pre[p][u], "referredBy", None)
           IN  (/\ r \in UserIds \ {u}
                /\ Get(users[r], "balance", 0) > Get(pre[p][r], "balance", 0))
               => Get(users[u], "balance", 0)
                    = Get(pre[p][u], "balance", 0)
                      + ClaimEarned(pre[p][u], req[p].taps, req[p].at)

\* C33: for every user, the taps accepted since the initial state (the growth
\* of tapCount, which each accepted tap-sync raises by its claimed count) are
\* at most 15 * (t1 - t0) + 50, t0 being the user's initial lastSyncAt and t1
\* the time of the last accepted tap-sync, however many requests they came in.
C33_RateCapOverTime ==
    \A u \in UserIds :
        (/\ "last_sync" \in DOMAIN users0[u]
         /\ "last_sync" \in DOMAIN users[u])
        => Get(users[u], "tapCount", 0) - Get(users0[u], "tapCount", 0)
             <= 15 * (users[u]["last_sync"] - users0[u]["last_sync"]) + 50

\* C34: a tap-sync whose claimed tap count is negative is never applied: once
\* it is answered, the user's balance and tapCount are those of before.
C34_NegativeTapsNotApplied ==
    \A p \in OneWorker :
        (/\ pc[p] = "idle"
         /\ req[p].op = "sync_taps"
         /\ req[p].uid \in UserIds
         /\ req[p].taps < 0)
        => /\ Get(users[req[p].uid], "balance", 0) = Get(pre[p][req[p].uid], "balance", 0)
           /\ Get(users[req[p].uid], "tapCount", 0) = Get(pre[p][req[p].uid], "tapCount", 0)

\* C35: in users.json the referredBy of every record is empty or names an
\* existing record of another user, and no request served for a user who has
\* a record, a repeated /start with any start parameter included, changes
\* that user's referredBy.
C35_ReferredByFixedAtCreation ==
    /\ \A u \in UserIds :
          DOMAIN db[u] # {}
          => /\ "referredBy" \in DOMAIN db[u]
             /\ \/ db[u]["referredBy"] = None
                \/ /\ db[u]["referredBy"] \in UserIds \ {u}
                   /\ DOMAIN db[db[u]["referredBy"]] # {}
    /\ \A i \in 1..Len(mlog) : \A u \in UserIds :
          DOMAIN mlog[i].before[u] # {}
          => /\ DOMAIN DbAfter(i)[u] # {}
             /\ DbAfter(i)[u]["referredBy"] = mlog[i].before[u]["referredBy"]

\* C35's case: user 3, who joined through user 1's link, sent /start again
\* with its own id as the start parameter and is still referred by 1.
C35_Witness ==
    /\ Len(mlog) = 2
    /\ mlog[1].op = "start" /\ mlog[1].uid = 3 /\ mlog[1].referrer_id = 1
    /\ mlog[2].op = "start" /\ mlog[2].uid = 3 /\ mlog[2].referrer_id = 3
    /\ mlog[2].before[3]["referredBy"] = 1
    /\ db[3]["referredBy"] = 1

\* How often user id x occurs in the list.
ClaimCount(list, x) == Cardinality({i \in 1..Len(list) : list[i] = x})

\* C36: in users.json, after any sequence of requests, user u occurs in the
\* referrals list of r if and only if u's referredBy is r, and then exactly
\* once.
C36_ReferralBookkeeping ==
    \A r \in UserIds : \A u \in UserIds :
        DOMAIN db[r] # {}
        => LET n == IF "referrals" \in DOMAIN db[r]
                    THEN ClaimCount(db[r]["referrals"], u) ELSE 0
               referred == /\ "referredBy" \in DOMAIN db[u]
                           /\ db[u]["referredBy"] = r
           IN  n = (IF referred THEN 1 ELSE 0)

\* C36's case: user 3 joined through the link of user 1, who had referred
\* user 2 before: 1's list is 2, 3 and both name 1 as their referrer.
C36_Witness ==
    /\ mlog # <<>>
    /\ Last.op = "start" /\ Last.uid = 3 /\ Last.referrer_id = 1
    /\ DOMAIN Last.before[3] = {}
    /\ db[1]["referrals"] = <<2, 3>>
    /\ db[2]["referredBy"] = 1
    /\ db[3]["referredBy"] = 1

\* The balance of user r in a store, 0 with no record.
ClaimBalance(store, r) ==
    IF "balance" \in DOMAIN store[r] THEN store[r]["balance"] ELSE 0

\* The distinct users in r's referrals list in a store.
ClaimReferees(store, r) ==
    IF "referrals" \in DOMAIN store[r]
    THEN {store[r]["referrals"][i] : i \in 1..Len(store[r]["referrals"])}
    ELSE {}

\* What the first i served requests paid to r as referrer: the growth of r's
\* balance over the /start requests of other users.
RECURSIVE ClaimSignupBonus(_, _)
ClaimSignupBonus(r, i) ==
    IF i = 0 THEN 0
    ELSE ClaimSignupBonus(r, i - 1)
         + (IF mlog[i].op = "start" /\ mlog[i].uid # r
            THEN ClaimBalance(DbAfter(i), r) - ClaimBalance(mlog[i].before, r)
            ELSE 0)

\* C37: a /start of a user who already has a record, with any start
\* parameter, changes no balance and no referrals list; and what a referrer
\* was paid in signup bonuses is 5000 times the number of distinct users its
\* referrals list gained.
C37_SignupBonusOncePerReferee ==
    /\ \A i \in 1..Len(mlog) :
          (mlog[i].op = "start" /\ DOMAIN mlog[i].before[mlog[i].uid] # {})
          => \A v \in UserIds :
                /\ ClaimBalance(DbAfter(i), v) = ClaimBalance(mlog[i].before, v)
                /\ ClaimReferees(DbAfter(i), v) = ClaimReferees(mlog[i].before, v)
                /\ ("referrals" \in DOMAIN mlog[i].before[v]
                    => DbAfter(i)[v]["referrals"] = mlog[i].before[v]["referrals"])
    /\ \A r \in UserIds :
          ClaimSignupBonus(r, Len(mlog))
            = 5000 * (Cardinality(ClaimReferees(db, r))
                      - Cardinality(ClaimReferees(InitDb, r)))

\* C37's case: user 3 joined through user 1's link, which paid user 1 the
\* bonus once, and then sent /start with that link again, which paid nothing.
C37_Witness ==
    /\ Len(mlog) = 2
    /\ mlog[1].op = "start" /\ mlog[1].uid = 3 /\ mlog[1].referrer_id = 1
    /\ mlog[2].op = "start" /\ mlog[2].uid = 3 /\ mlog[2].referrer_id = 1
    /\ db[1]["balance"] = InitDb[1]["balance"] + 5000
    /\ db[3]["balance"] = 5500
    /\ db[1]["referrals"] = <<2, 3>>

\* C38: a payment confirmation whose payload userId_itemId names a catalog
\* item and a user v with a record changes v's record and no other record,
\* whoever sent the confirmation.
C38_PurchaseGoesToPayloadUser ==
    \A i \in 1..Len(mlog) : \A v \in UserIds :
        (/\ mlog[i].op = "successful_payment"
         /\ ClaimNamesItemMain(mlog[i].payload)
         /\ Head(mlog[i].payload) = Str(v)
         /\ DOMAIN mlog[i].before[v] # {})
        => /\ DbAfter(i)[v] # mlog[i].before[v]
           /\ \A w \in UserIds \ {v} : DbAfter(i)[w] = mlog[i].before[w]

\* Served request i is the /start of user u, who had no record, with the
\* link of r, who had one.
ClaimJoins(i, u, r) ==
    /\ mlog[i].op = "start"
    /\ mlog[i].uid = u
    /\ mlog[i].referrer_id = r
    /\ r # u

\* Served request i is the payment of the coin pack coin_starter sent by s.
ClaimPaysCoins(i, s) ==
    /\ mlog[i].op = "successful_payment"
    /\ mlog[i].from_user = s
    /\ Len(mlog[i].payload) = 3
    /\ Tail(mlog[i].payload) = <<"coin", "starter">>

\* C39: handlers of main.py that are scheduled together lose none of each
\* other's updates, in whichever order the event loop runs them: two new
\* users joining with the link of the same referrer leave the referrer with
\* both bonuses and both ids in its referrals list, and a registration next
\* to a payment leaves the new record, the referrer's bonus and list entry,
\* and the payer's coins.
C39_HandlersLoseNoUpdate ==
    \A i \in 1..(Len(mlog) - 1) : \A r \in UserIds :
        LET before == mlog[i].before
            after == DbAfter(i + 1)
        IN  DOMAIN before[r] # {}
            => /\ \A u1, u2 \in UserIds \ {r} :
                    (/\ u1 # u2
                     /\ DOMAIN before[u1] = {} /\ DOMAIN before[u2] = {}
                     /\ ClaimJoins(i, u1, r) /\ ClaimJoins(i + 1, u2, r))
                    => /\ after[r]["balance"] = before[r]["balance"] + 2 * 5000
                       /\ ClaimReferees(after, r) = ClaimReferees(before, r) \cup {u1, u2}
                       /\ Len(after[r]["referrals"]) = Len(before[r]["referrals"]) + 2
                       /\ DOMAIN after[u1] # {} /\ DOMAIN after[u2] # {}
               /\ \A u \in UserIds \ {r} : \A s \in UserIds \ {u} :
                    (/\ DOMAIN before[u] = {}
                     /\ DOMAIN before[s] # {}
                     /\ \/ ClaimJoins(i, u, r) /\ ClaimPaysCoins(i + 1, s)
                        \/ ClaimPaysCoins(i, s) /\ ClaimJoins(i + 1, u, r))
                    => /\ DOMAIN after[u] # {}
                       /\ after[u]["referredBy"] = r
                       /\ ClaimReferees(after, r) = ClaimReferees(before, r) \cup {u}
                       /\ after[s]["balance"]
                            = before[s]["balance"] + 5000
                              + (IF s = r THEN 5000 ELSE 0)
                       /\ (s # r => after[r]["balance"] = before[r]["balance"] + 5000)

\* C39's case: users 2 and 3 joined one right after the other with user 1's
\* link, and user 1 holds both bonuses and both ids.
C39_Witness ==
    /\ Len(mlog) = 2
    /\ ClaimJoins(1, 3, 1) /\ ClaimJoins(2, 2, 1)
    /\ mlog[1].at = mlog[2].at
    /\ DOMAIN mlog[1].before[2] = {} /\ DOMAIN mlog[1].before[3] = {}
    /\ db[1]["balance"] = mlog[1].before[1]["balance"] + 10000
    /\ db[1]["referrals"] = <<3, 2>>

\* C39's other case: user 1 paid for a coin pack and user 2 joined with
\* user 1's link right after it; user 1 holds the coins and the bonus.
C39_WitnessPayment ==
    /\ Len(mlog) = 2
    /\ ClaimPaysCoins(1, 1) /\ ClaimJoins(2, 2, 1)
    /\ DOMAIN mlog[1].before[2] = {}
    /\ db[1]["balance"] = mlog[1].before[1]["balance"] + 10000
    /\ db[1]["referrals"] = <<2>>
    /\ db[2]["referredBy"] = 1

====
